---- MODULE Spec2Model ----
(***************************************************************************)
(* Model of the Wikipedia quiz generator (backend/app).                    *)
(*                                                                         *)
(* A Python str is a sequence of one-character strings, so that strip,     *)
(* lower, the substring test and the regular expressions of the source are *)
(* computed character by character.  A JSON value (what json.loads gives)  *)
(* is a record [t |-> tag, v |-> payload].  A call that may raise returns  *)
(* a record [ok |-> BOOLEAN, val |-> result, exc |-> exception name].      *)
(***************************************************************************)
EXTENDS Integers, Sequences, FiniteSets, TLC

\* ------------------------------------------------------------------ text

UpperCase == <<"A","B","C","D","E","F","G","H","I","J","K","L","M",
               "N","O","P","Q","R","S","T","U","V","W","X","Y","Z">>

LowerCase == <<"a","b","c","d","e","f","g","h","i","j","k","l","m",
               "n","o","p","q","r","s","t","u","v","w","x","y","z">>

IsUpper(c) == \E i \in 1..26 : UpperCase[i] = c

IsLower(c) == \E i \in 1..26 : LowerCase[i] = c

IsDigit(c) == c \in {"0","1","2","3","4","5","6","7","8","9"}

\* the character ` (a TLA+ string cannot hold it)
Backtick == "backtick"

\* str.isspace for the characters the model uses
IsSpace(c) == c \in {" ", "\t", "\n"}

\* the regular expressions' \w
IsWordChar(c) == IsUpper(c) \/ IsLower(c) \/ IsDigit(c) \/ c = "_"

lower_char(c) == IF IsUpper(c) THEN LowerCase[CHOOSE i \in 1..26 : UpperCase[i] = c] ELSE c

upper_char(c) == IF IsLower(c) THEN UpperCase[CHOOSE i \in 1..26 : LowerCase[i] = c] ELSE c

\* str.lower
lower(s) == [i \in 1..Len(s) |-> lower_char(s[i])]

\* str.upper
upper(s) == [i \in 1..Len(s) |-> upper_char(s[i])]

\* the least and the greatest member of a set of indices, 0 for the empty set
MinOf(S) == IF S = {} THEN 0 ELSE CHOOSE i \in S : \A j \in S : i <= j

MaxOf(S) == IF S = {} THEN 0 ELSE CHOOSE i \in S : \A j \in S : i >= j

\* str.lstrip: from the first character that is no whitespace
lstrip(s) ==
    IF \A i \in 1..Len(s) : IsSpace(s[i]) THEN <<>>
    ELSE SubSeq(s, MinOf({i \in 1..Len(s) : ~IsSpace(s[i])}), Len(s))

\* str.rstrip: up to the last character that is no whitespace
rstrip(s) == SubSeq(s, 1, MaxOf({i \in 1..Len(s) : ~IsSpace(s[i])}))

\* str.strip
strip(s) == rstrip(lstrip(s))

\* the substring test `needle in hay` of two str
Contains(hay, needle) ==
    \E i \in 0..(Len(hay) - Len(needle)) : SubSeq(hay, i + 1, i + Len(needle)) = needle

\* `x in xs` for a list of str
InList(x, xs) == \E i \in 1..Len(xs) : xs[i] = x

\* list(dict.fromkeys(xs)): the first occurrence of each element, in order
RECURSIVE fromkeys(_)
fromkeys(xs) ==
    IF Len(xs) = 0 THEN <<>>
    ELSE LET init == fromkeys(SubSeq(xs, 1, Len(xs) - 1))
             x    == xs[Len(xs)]
         IN  IF InList(x, init) THEN init ELSE Append(init, x)

\* ---------------------------------------------------- regular expressions

\* \b between s[i] and s[i+1] (i = 0: before the text, i = Len(s): after it)
WordBoundary(s, i) ==
    (i >= 1 /\ IsWordChar(s[i])) # (i < Len(s) /\ IsWordChar(s[i + 1]))

\* the last index of the longest run of lower-case letters that follows s[p]
LowerRunEnd(s, p) ==
    CHOOSE e \in p..Len(s) :
        /\ \A j \in (p + 1)..e : IsLower(s[j])
        /\ (e = Len(s) \/ ~IsLower(s[e + 1]))

\* the last index of the longest run of whitespace that follows s[e]
SpaceRunEnd(s, e) ==
    CHOOSE w \in e..Len(s) :
        /\ \A j \in (e + 1)..w : IsSpace(s[j])
        /\ (w = Len(s) \/ ~IsSpace(s[w + 1]))

\* [A-Z][a-z]{2,} at p: the index of its last character, 0 when it does not match
CapWordEnd(s, p) ==
    IF p >= 1 /\ p <= Len(s) /\ IsUpper(s[p])
    THEN LET e == LowerRunEnd(s, p) IN IF e - p >= 2 THEN e ELSE 0
    ELSE 0

\* \s+[A-Z][a-z]{2,} after index e: the index of its last character, or 0
NextCapWord(s, e) ==
    LET w == SpaceRunEnd(s, e) IN IF w > e THEN CapWordEnd(s, w + 1) ELSE 0

\* \b([A-Z][a-z]{2,}(?:\s+[A-Z][a-z]{2,}){0,2})\b at p, greedy: the index of the
\* match's last character, 0 when there is no match at p
CapsMatchEnd(s, p) ==
    IF ~WordBoundary(s, p - 1) THEN 0
    ELSE LET e0 == CapWordEnd(s, p)
             e1 == IF e0 = 0 THEN 0 ELSE NextCapWord(s, e0)
             e2 == IF e1 = 0 THEN 0 ELSE NextCapWord(s, e1)
         IN  IF e2 # 0 /\ WordBoundary(s, e2) THEN e2
             ELSE IF e1 # 0 /\ WordBoundary(s, e1) THEN e1
             ELSE IF e0 # 0 /\ WordBoundary(s, e0) THEN e0
             ELSE 0

\* the matches of the capitalized-phrase pattern from p on, left to right and
\* not overlapping, starts holding the indices a match can start at
RECURSIVE caps_from(_, _, _)
caps_at(s, i, starts) ==
    <<SubSeq(s, i, CapsMatchEnd(s, i))>> \o caps_from(s, CapsMatchEnd(s, i) + 1, starts)

caps_from(s, p, starts) ==
    IF \A i \in starts : i < p THEN <<>>
    ELSE caps_at(s, MinOf({i \in starts : i >= p}), starts)

\* re.findall of the capitalized-phrase pattern, scanning from p
FindCaps(s, p) == caps_from(s, p, {i \in 1..Len(s) : CapsMatchEnd(s, i) # 0})

\* \b(c1|c2|...)\d{2}\b at p, the alternatives being the two-digit centuries
YearMatch(s, p, centuries) ==
    /\ p + 3 <= Len(s)
    /\ WordBoundary(s, p - 1)
    /\ InList(SubSeq(s, p, p + 1), centuries)
    /\ IsDigit(s[p + 2]) /\ IsDigit(s[p + 3])
    /\ WordBoundary(s, p + 3)

\* the centuries of the year matches from p on, left to right and not
\* overlapping, starts holding the indices a match starts at
RECURSIVE years_from(_, _, _)
years_at(s, i, starts) == <<SubSeq(s, i, i + 1)>> \o years_from(s, i + 4, starts)

years_from(s, p, starts) ==
    IF \A i \in starts : i < p THEN <<>>
    ELSE years_at(s, MinOf({i \in starts : i >= p}), starts)

\* re.findall of a year pattern: with one capturing group findall returns the
\* group, which is the century alone, not the four digits
FindYears(s, p, centuries) ==
    years_from(s, p, {i \in 1..Len(s) : YearMatch(s, i, centuries)})

\* ---------------------------------------------------------- Python values

JStr(s) == [t |-> "str", v |-> s]

JNum(n) == [t |-> "num", v |-> n]

JBool(b) == [t |-> "bool", v |-> b]

\* None, and JSON null
JNull == [t |-> "null", v |-> 0]

JList(xs) == [t |-> "list", v |-> xs]

\* a dict: its items in insertion order, each [k |-> key (a str), v |-> value]
JDict(items) == [t |-> "dict", v |-> items]

\* bool(x)
Truthy(x) ==
    CASE x.t = "str"  -> Len(x.v) > 0
      [] x.t = "num"  -> x.v # 0
      [] x.t = "bool" -> x.v
      [] x.t = "list" -> Len(x.v) > 0
      [] x.t = "dict" -> Len(x.v) > 0
      [] OTHER        -> FALSE

\* `key in d`
HasKey(d, key) == \E i \in 1..Len(d.v) : d.v[i].k = key

\* d.get(key)
get(d, key) ==
    IF HasKey(d, key) THEN d.v[CHOOSE i \in 1..Len(d.v) : d.v[i].k = key].v ELSE JNull

\* a or b
Or(a, b) == IF Truthy(a) THEN a ELSE b

DigitChars == <<"0","1","2","3","4","5","6","7","8","9">>

\* str(n) of an int
RECURSIVE NumStr(_)
NumStr(n) ==
    IF n < 0 THEN <<"-">> \o NumStr(-n)
    ELSE IF n < 10 THEN <<DigitChars[n + 1]>>
    ELSE NumStr(n \div 10) \o <<DigitChars[(n % 10) + 1]>>

\* str(x) of a str, an int, a bool or None (the model applies str to no list or dict)
PyStr(x) ==
    CASE x.t = "str"  -> x.v
      [] x.t = "num"  -> NumStr(x.v)
      [] x.t = "bool" -> IF x.v THEN <<"T","r","u","e">> ELSE <<"F","a","l","s","e">>
      [] x.t = "null" -> <<"N","o","n","e">>

\* a call's outcome: a returned value, or a raised exception
Ok(v) == [ok |-> TRUE, val |-> v, exc |-> "none"]

Raise(e) == [ok |-> FALSE, val |-> <<>>, exc |-> e]

\* re.split(r"\n+", s)
RECURSIVE re_split_newlines(_)
re_split_newlines(s) ==
    IF \A i \in 1..Len(s) : s[i] # "\n" THEN <<s>>
    ELSE LET i == CHOOSE k \in 1..Len(s) : s[k] = "\n" /\ \A m \in 1..(k - 1) : s[m] # "\n"
             j == CHOOSE k \in i..Len(s) :
                      /\ \A m \in i..k : s[m] = "\n"
                      /\ (k = Len(s) \/ s[k + 1] # "\n")
         IN  <<SubSeq(s, 1, i - 1)>> \o re_split_newlines(SubSeq(s, j + 1, Len(s)))

\* ------------------------------------------------------ question normalizer

S_Question == <<"Q","u","e","s","t","i","o","n">>

S_easy == <<"e","a","s","y">>

S_medium == <<"m","e","d","i","u","m">>

S_hard == <<"h","a","r","d">>

S_BasedOn == <<"B","a","s","e","d"," ","o","n"," ","t","h","e"," ","a","r","t","i","c","l","e"," ","c","o","n","t","e","n","t",".">>

S_Introduction == <<"I","n","t","r","o","d","u","c","t","i","o","n">>

fallback_words ==
    << <<"H","i","s","t","o","r","y">>, <<"A","g","r","i","c","u","l","t","u","r","e">>, <<"T","e","c","h","n","o","l","o","g","y">>, <<"E","c","o","n","o","m","y">>, <<"M","e","c","h","a","n","i","c","s">>, <<"F","u","n","c","t","i","o","n">> >>

\* _normalize_option_text
normalize_option_text(opt) == strip(opt)

\* [self._normalize_option_text(o) for o in options if o and o.strip()]: a falsy
\* element is skipped, a truthy element that is no str has no strip and raises
RECURSIVE clean_options(_)
clean_options(options) ==
    IF Len(options) = 0 THEN Ok(<<>>)
    ELSE LET o    == Head(options)
             rest == clean_options(Tail(options))
         IN  IF ~Truthy(o) THEN rest
             ELSE IF o.t # "str" THEN Raise("AttributeError")
             ELSE IF ~rest.ok THEN rest
             ELSE IF Len(strip(o.v)) = 0 THEN rest
             ELSE Ok(<<normalize_option_text(o.v)>> \o rest.val)

\* dedupe_options without the seen set: every cleaned option is kept
dedupe_none(opts) == opts

\* the seen/cleaned loop: the first occurrence of each option, in order
dedupe_options(opts) == fromkeys(opts)

\* for c in cands: if c not in opts and c not in distractors: distractors.append(c)
RECURSIVE append_new(_, _, _)
append_new(distractors, cands, opts) ==
    IF Len(cands) = 0 THEN distractors
    ELSE LET c == Head(cands)
         IN  append_new(IF ~InList(c, opts) /\ ~InList(c, distractors)
                        THEN Append(distractors, c) ELSE distractors,
                        Tail(cands), opts)

\* [n for n in numbers if n not in opts]
not_in_opts(numbers, opts) == SelectSeq(numbers, LAMBDA n : ~InList(n, opts))

\* the distractors of _ensure_four_options: centuries of the years in the
\* article, then its capitalized phrases, then the generic words
build_distractors(opts, article_content) ==
    append_new(append_new(not_in_opts(fromkeys(FindYears(article_content, 1, << <<"1","9">>, <<"2","0">> >>)), opts),
                          FindCaps(article_content, 1), opts),
               fallback_words, opts)

\* while len(opts) < 4: opts.append(f"Option {len(opts)+1}")
RECURSIVE pad_with_option_n(_)
pad_with_option_n(opts) ==
    IF Len(opts) < 4
    THEN pad_with_option_n(Append(opts, <<"O","p","t","i","o","n"," ">> \o NumStr(Len(opts) + 1)))
    ELSE opts

\* distractors[:needed]
first_needed(distractors, needed) ==
    SubSeq(distractors, 1, IF needed < Len(distractors) THEN needed ELSE Len(distractors))

\* opts.extend(distractors[:needed]), the Option N loop, return opts[:4]
fill_to_four(opts, distractors) ==
    SubSeq(pad_with_option_n(opts \o first_needed(distractors, 4 - Len(opts))), 1, 4)

\* _ensure_four_options once the options are cleaned and deduplicated
four_options(opts, article_content) ==
    IF Len(opts) >= 4 THEN SubSeq(opts, 1, 4)
    ELSE fill_to_four(opts, build_distractors(opts, article_content))

\* _ensure_four_options on the outcome c of cleaning the options
four_options_of(c, article_content) ==
    IF ~c.ok THEN c ELSE Ok(four_options(dedupe_options(c.val), article_content))

\* _ensure_four_options
ensure_four_options(options, article_content) ==
    four_options_of(clean_options(options), article_content)

\* a list as it is, a dict's values, anything else as str split on newlines
as_option_list(raw) ==
    IF raw.t = "dict" THEN [i \in 1..Len(raw.v) |-> raw.v[i].v]
    ELSE IF raw.t = "list" THEN raw.v
    ELSE [i \in 1..Len(re_split_newlines(PyStr(raw))) |-> JStr(re_split_newlines(PyStr(raw))[i])]

\* raw_options of _repair_question
raw_options_of(q) ==
    as_option_list(Or(get(q, <<"o","p","t","i","o","n","s">>), Or(get(q, <<"c","h","o","i","c","e","s">>), Or(get(q, <<"a","n","s","w","e","r","s">>), JList(<<>>)))))

letter_map == << <<"A">>, <<"B">>, <<"C">>, <<"D">> >>

\* resolve_answer with `match or ans_str`: an answer no option contains is kept
resolve_answer_unmatched(ans_str, options) ==
    IF InList(upper(ans_str), letter_map)
    THEN LET idx == CHOOSE i \in 1..4 : letter_map[i] = upper(ans_str)
         IN  IF idx <= Len(options) THEN options[idx] ELSE options[1]
    ELSE LET hits == {i \in 1..Len(options) :
                         Len(ans_str) > 0 /\ Contains(lower(options[i]), lower(ans_str))}
         IN  IF hits # {}
             THEN options[CHOOSE i \in hits : \A j \in hits : i <= j]
             ELSE ans_str

\* resolve_answer matching in either direction: the first option that
\* contains the answer or is contained in it
resolve_answer_either(ans_str, options) ==
    IF InList(upper(ans_str), letter_map)
    THEN LET idx == CHOOSE i \in 1..4 : letter_map[i] = upper(ans_str)
         IN  IF idx <= Len(options) THEN options[idx] ELSE options[1]
    ELSE LET hits == {i \in 1..Len(options) :
                         Len(ans_str) > 0
                         /\ (Contains(lower(options[i]), lower(ans_str))
                             \/ Contains(lower(ans_str), lower(options[i])))}
         IN  IF hits # {}
             THEN options[CHOOSE i \in hits : \A j \in hits : i <= j]
             ELSE options[1]

\* answer_text of _repair_question: a letter A-D is an index, anything else is
\* the first option that contains it, ignoring case, or option 0
resolve_answer(ans_str, options) ==
    IF InList(upper(ans_str), letter_map)
    THEN LET idx == CHOOSE i \in 1..4 : letter_map[i] = upper(ans_str)
         IN  IF idx <= Len(options) THEN options[idx] ELSE options[1]
    ELSE LET hits == {i \in 1..Len(options) :
                         Len(ans_str) > 0 /\ Contains(lower(options[i]), lower(ans_str))}
         IN  IF hits # {}
             THEN options[CHOOSE i \in hits : \A j \in hits : i <= j]
             ELSE options[1]

\* .lower() of the difficulty, clamped to easy
clamp_difficulty(d) ==
    IF d.t # "str" THEN Raise("AttributeError")
    ELSE IF lower(d.v) \in {S_easy, S_medium, S_hard} THEN Ok(lower(d.v))
    ELSE Ok(S_easy)

\* diff of _repair_question: (q.get("difficulty") or "").lower(), clamped
normalize_difficulty(q) == clamp_difficulty(Or(get(q, <<"d","i","f","f","i","c","u","l","t","y">>), JStr(<<>>)))

\* explanation.strip()
strip_explanation(e) ==
    IF e.t # "str" THEN Raise("AttributeError") ELSE Ok(strip(e.v))

\* if not explanation: explanation = "Based on the article content."
default_explanation(e) == IF ~Truthy(e) THEN JStr(S_BasedOn) ELSE e

\* explanation of _repair_question: the default when falsy, then .strip()
normalize_explanation(q) ==
    strip_explanation(default_explanation(
        Or(get(q, <<"e","x","p","l","a","n","a","t","i","o","n">>), Or(get(q, <<"e","x","p","l","a","i","n">>), JStr(<<>>)))))

\* the dict _repair_question returns, or the exception raised on the way
repaired(question, options, ans_str, diff, expl, section) ==
    IF ~options.ok THEN options
    ELSE IF ~diff.ok THEN diff
    ELSE IF ~expl.ok THEN expl
    ELSE Ok([question    |-> question,
             options     |-> options.val,
             answer      |-> resolve_answer(ans_str, options.val),
             difficulty  |-> diff.val,
             explanation |-> expl.val,
             section     |-> section])

\* _repair_question: the repaired question, or the exception it raises.  The
\* section is kept as the value it came with.
repair_question(q, article_content) ==
    repaired(strip(PyStr(Or(get(q, <<"q","u","e","s","t","i","o","n">>), Or(get(q, <<"t","e","x","t">>), JStr(S_Question))))),
             ensure_four_options(raw_options_of(q), article_content),
             strip(PyStr(Or(get(q, <<"a","n","s","w","e","r">>), Or(get(q, <<"c","o","r","r","e","c","t">>), JStr(<<>>))))),
             normalize_difficulty(q),
             normalize_explanation(q),
             Or(get(q, <<"s","e","c","t","i","o","n">>), JStr(S_Introduction)))

\* ------------------------------------------------------------ quality gate

\* re.search(kw + r"\s+" + cls, o, flags=re.IGNORECASE): the keyword in any
\* case, one or more whitespace characters, then a character of the class
SearchKeywordThen(o, kw, IsCls(_)) ==
    \E i \in 1..Len(o) :
        LET e == i + Len(kw) - 1
        IN  /\ e <= Len(o)
            /\ lower(SubSeq(o, i, e)) = kw
            /\ LET w == SpaceRunEnd(o, e)
               IN  w > e /\ w + 1 <= Len(o) /\ IsCls(o[w + 1])

\* [A-Z] under re.IGNORECASE
IsLetter(c) == IsUpper(c) \/ IsLower(c)

\* PatternMatches with a fourth signature folded into the first: a bare
\* single letter A-D
PatternMatches_bare_letter(p, o) ==
    CASE p = 1 -> \/ SearchKeywordThen(o, <<"t","o","p","i","c">>, IsLetter)
                  \/ (Len(o) = 1 /\ InList(o, letter_map))
      [] p = 2 -> SearchKeywordThen(o, <<"f","a","c","t">>, IsLetter)
      [] p = 3 -> SearchKeywordThen(o, <<"o","p","t","i","o","n">>, IsDigit)

\* placeholder_patterns, each as its search: Topic\s+[A-Z], Fact\s+[A-Z], Option\s+\d+
PatternMatches(p, o) ==
    CASE p = 1 -> SearchKeywordThen(o, <<"t","o","p","i","c">>, IsLetter)
      [] p = 2 -> SearchKeywordThen(o, <<"f","a","c","t">>, IsLetter)
      [] p = 3 -> SearchKeywordThen(o, <<"o","p","t","i","o","n">>, IsDigit)

NumPatterns == 3

\* counts of is_placeholder: one for every pair of an option and a pattern that matches
placeholder_counts(opts) ==
    Cardinality({<<i, p>> \in (1..Len(opts)) \X (1..NumPatterns) : PatternMatches(p, opts[i])})

PlaceholderThreshold == 3

\* is_placeholder
is_placeholder(qd) ==
    IF Len(qd.options) = 0 THEN TRUE
    ELSE placeholder_counts(qd.options) >= PlaceholderThreshold

\* ----------------------------------------------------- fallback synthesizer

S_Other == <<"O","t","h","e","r">>

S_FactA == <<"F","a","c","t"," ","A">>

S_FactB == <<"F","a","c","t"," ","B">>

S_FactC == <<"F","a","c","t"," ","C">>

S_FactD == <<"F","a","c","t"," ","D">>

Rotate(xs, r) == [i \in 1..Len(xs) |-> xs[((i - 1 + r) % Len(xs)) + 1]]

Reverse(xs) == [i \in 1..Len(xs) |-> xs[Len(xs) + 1 - i]]

\* the largest rotation a shuffle is drawn from
MaxRotation == 1

\* random.shuffle(xs): the orders it may leave the list in.  It may leave any
\* permutation; the model draws from the list as it is, its rotations by up
\* to MaxRotation, and its reverse.
shuffle(xs) ==
    {Rotate(xs, r) : r \in 0..(IF MaxRotation < Len(xs) THEN MaxRotation ELSE Len(xs) - 1)}
        \cup {Reverse(xs)}

\* the orders of the shuffle sample, numbered
shuffle_orders(xs) ==
    [n \in 1..(MaxRotation + 2) |-> IF n <= MaxRotation + 1 THEN Rotate(xs, n - 1) ELSE Reverse(xs)]

\* the number of states of the process-wide generator
RngStates == 3

\* random.shuffle(xs) with the process-wide generator in state r: the order
\* is a function of the state, and the call moves the generator on to
\* advance(r)
shuffle_with(xs, r) == shuffle_orders(xs)[(r % (MaxRotation + 2)) + 1]

advance(r) == (r + 1) % RngStates

\* main_q of _generate_fallback_quiz
main_q(title, caps) ==
    [question    |-> <<"W","h","a","t"," ","i","s"," ","t","h","e"," ","m","a","i","n"," ","t","o","p","i","c"," ","o","f"," ","t","h","i","s"," ","a","r","t","i","c","l","e"," ","a","b","o","u","t"," ">> \o title \o <<"?">>,
     options     |-> << title,
                        IF Len(caps) > 0 THEN caps[1] ELSE <<"H","i","s","t","o","r","y">>,
                        IF Len(caps) > 1 THEN caps[2] ELSE <<"T","e","c","h","n","o","l","o","g","y">>,
                        S_Other >>,
     answer      |-> title,
     difficulty  |-> S_easy,
     explanation |-> <<"T","h","e"," ","a","r","t","i","c","l","e"," ","i","s"," ","a","b","o","u","t"," ">> \o title \o <<".">>,
     section     |-> JStr(S_Introduction)]

\* seeds of _generate_fallback_quiz: (qtext, pool) pairs
fallback_seeds(years, caps) ==
    (IF Len(years) > 0
     THEN <<[qtext |-> <<"W","h","i","c","h"," ","y","e","a","r"," ","i","s"," ","m","e","n","t","i","o","n","e","d"," ","i","n"," ","t","h","e"," ","a","r","t","i","c","l","e"," ","s","u","m","m","a","r","y","?">>, pool |-> years]>>
     ELSE <<>>)
    \o (IF Len(caps) > 0
        THEN <<[qtext |-> <<"W","h","i","c","h"," ","o","f"," ","t","h","e","s","e"," ","i","s"," ","m","e","n","t","i","o","n","e","d"," ","i","n"," ","t","h","e"," ","a","r","t","i","c","l","e"," ","s","u","m","m","a","r","y","?">>, pool |-> caps]>>
        ELSE <<>>)
    \o <<[qtext |-> <<"W","h","i","c","h"," ","t","e","r","m"," ","r","e","l","a","t","e","s"," ","t","o"," ","t","h","e"," ","a","r","t","i","c","l","e"," ","t","o","p","i","c","?">>,
          pool  |-> << <<"A","g","r","i","c","u","l","t","u","r","e">>, <<"T","e","c","h","n","o","l","o","g","y">>, <<"E","c","o","n","o","m","y">>, <<"C","u","l","t","u","r","e">> >>]>>

\* other_choices before the shuffle
other_choices(pool_list) == Tail(pool_list) \o <<S_FactB, S_FactC, S_FactD, S_Other>>

\* qobj of the seed loop, for seed number i and the shuffled other_choices: the
\* correct entry, then the first three of the shuffled list
seed_question(i, seed, shuffled) ==
    LET pool_list == fromkeys(seed.pool)
        correct   == IF Len(pool_list) > 0 THEN pool_list[1] ELSE S_FactA
    IN  [question    |-> NumStr(i) \o <<"."," ">> \o seed.qtext,
         options     |-> <<correct>> \o SubSeq(shuffled, 1, 3),
         answer      |-> correct,
         difficulty  |-> S_easy,
         explanation |-> <<"D","e","r","i","v","e","d"," ","f","r","o","m"," ","a","r","t","i","c","l","e"," ","s","u","m","m","a","r","y",":"," ">> \o correct,
         section     |-> JStr(S_Introduction)]

\* the seed loop from seed k on (enumerate starts at 2): every list of
\* questions it may build, one per way the shuffles may fall
RECURSIVE build_from_seeds(_, _, _, _)
build_from_seeds(sds, k, questions, num_questions) ==
    IF k > Len(sds) \/ Len(questions) >= num_questions THEN {questions}
    ELSE UNION { build_from_seeds(sds, k + 1,
                                  Append(questions, seed_question(k + 1, sds[k], sh)),
                                  num_questions) :
                 sh \in shuffle(other_choices(fromkeys(sds[k].pool))) }

\* while len(questions) < num_questions: append a generic concept question
RECURSIVE clone_concept_questions(_, _, _)
clone_concept_questions(questions, title, num_questions) ==
    IF Len(questions) >= num_questions THEN questions
    ELSE clone_concept_questions(
             Append(questions,
                    [question    |-> <<"W","h","a","t"," ","i","s"," ","a"," ","k","e","y"," ","c","o","n","c","e","p","t"," ","r","e","l","a","t","e","d"," ","t","o"," ">> \o title
                                     \o <<"?"," ","(","f","a","l","l","b","a","c","k"," ">> \o NumStr(Len(questions) + 1) \o <<")">>,
                     options     |-> <<S_FactA, S_FactB, S_FactC, S_FactD>>,
                     answer      |-> S_FactA,
                     difficulty  |-> S_easy,
                     explanation |-> <<"F","a","l","l","b","a","c","k"," ","q","u","e","s","t","i","o","n"," ","g","e","n","e","r","a","t","e","d"," ","f","r","o","m"," ","s","u","m","m","a","r","y"," ","h","e","u","r","i","s","t","i","c","s",".">>,
                     section     |-> JStr(S_Introduction)]),
             title, num_questions)

\* truncate without its slice: the list as it was built
truncate_none(questions, num_questions) == questions

\* questions[:num_questions], num_questions >= 0
truncate(questions, num_questions) ==
    SubSeq(questions, 1, IF num_questions < Len(questions) THEN num_questions ELSE Len(questions))

\* _generate_fallback_quiz: the lists it may return
generate_fallback_quiz(title, summary, num_questions) ==
    LET summary_text == strip(summary)
        caps  == fromkeys(FindCaps(summary_text, 1))
        years == fromkeys(FindYears(summary_text, 1, << <<"1","8">>, <<"1","9">>, <<"2","0">> >>))
    IN  { truncate(clone_concept_questions(qs, title, num_questions), num_questions) :
          qs \in build_from_seeds(fallback_seeds(years, caps), 1, <<main_q(title, caps)>>,
                                  num_questions) }

\* ------------------------------------------------------------------ prompt

QUIZ_GENERATION_TEMPLATE ==
    << "\n",
       "You are an expert quiz generator. Based only on the Article Title, Summary and Sections below,\n",
       "generate exactly ", "{", "num_questions", "}", " multiple-choice quiz questions.\n",
       "\n", "REQUIREMENTS (must follow exactly)", ":", "\n",
       "- Return ONLY a valid JSON array (no markdown, no commentary).\n",
       "- Each question object MUST have these fields", ":", "\n", "  \"question\"", ":",
       " string,\n", "  \"options\"", ":", " [4 distinct strings],\n", "  \"answer\"", ":",
       " string,                      # must be equal to one of the 4 options\n",
       "  \"difficulty\"", ":", " \"easy\" | \"medium\" | \"hard\",\n", "  \"explanation\"",
       ":", " string,\n", "  \"section\"", ":", " string\n", "\n",
       "- Options must be concrete, factual answer choices (not \"Option A\" or \"Topic A\" or placeholders).\n",
       "- For numeric facts, include numbers in options when relevant (e.g., years, counts).\n",
       "- Distractors should be plausible and grounded in the article content.\n",
       "- Cover different sections; distribute difficulty across questions.\n", "\n",
       "Example (one question object only; format example)", ":", "\n", "{", "\n",
       "  \"question\"", ":", " \"In which year was X first introduced?\",\n", "  \"options\"",
       ":", " [\"1910\", \"1920\", \"1930\", \"1940\"],\n", "  \"answer\"", ":", " \"1920\",\n",
       "  \"difficulty\"", ":", " \"easy\",\n", "  \"explanation\"", ":",
       " \"X was introduced in 1920 as mentioned in the History section.\",\n", "  \"section\"",
       ":", " \"History\"\n", "}", "\n", "\n", "Article Title", ":", " ", "{", "title", "}",
       "\n", "Article Summary", ":", " ", "{", "summary", "}", "\n", "Article Sections", ":",
       " ", "{", "sections", "}", "\n", "Article Content (truncated)", ":", " ", "{", "content",
       "}", "\n", "\n",
       "Return a JSON array of question objects exactly matching the schema above.\n" >>

RELATED_TOPICS_TEMPLATE ==
    << "\n", "Based on the Wikipedia article titled \"", "{", "title", "}",
       "\" with the following content", ":", "\n", "Summary", ":", " ", "{", "summary", "}",
       "\n", "Sections", ":", " ", "{", "sections", "}", "\n", "\n",
       "Suggest 3-5 related Wikipedia topics that readers interested in this article would also find useful.\n",
       "\n",
       "Return a JSON object with a single field \"related_topics\" whose value is an array of topic names, e.g.",
       ":", "\n", "{{", " \"related_topics\"", ":", " [\"Topic A\", \"Topic B\", \"Topic C\"] ",
       "}}", "\n", "\n",
       "Return ONLY valid JSON. No markdown, no code blocks, no extra text.\n" >>

\* the index of the first "}" at or after i, Len(t) + 1 when there is none
FieldClose(t, i) ==
    CHOOSE c \in i..(Len(t) + 1) :
        /\ (c = Len(t) + 1 \/ t[c] = "}")
        /\ \A j \in i..(c - 1) : t[j] # "}"

\* the field name of a replacement field whose "{" is at i and "}" at c: what
\* stands before the first ":" (the format spec follows it)
FieldName(t, i, c) ==
    LET e == CHOOSE n \in (i + 1)..c :
                 /\ (n = c \/ t[n] = ":")
                 /\ \A j \in (i + 1)..(n - 1) : t[j] # ":"
    IN  SubSeq(t, i + 1, e - 1)

\* string.Formatter.vformat, which PromptTemplate.format applies to an
\* f-string template: "{{" and "}}" are literal braces, "{" opens a replacement
\* field whose name is looked up in kwargs (KeyError when it is not there)
RECURSIVE vformat(_, _, _)
vformat(t, i, kwargs) ==
    IF i > Len(t) THEN Ok(<<>>)
    ELSE IF t[i] = "{"
    THEN LET c == FieldClose(t, i + 1)
         IN  IF c > Len(t) THEN Raise("ValueError")
             ELSE IF FieldName(t, i, c) \notin kwargs THEN Raise("KeyError")
             ELSE LET rest == vformat(t, c + 1, kwargs)
                  IN  IF rest.ok
                      THEN Ok(<<[k |-> "arg", s |-> FieldName(t, i, c)]>> \o rest.val)
                      ELSE rest
    ELSE IF t[i] = "}" THEN Raise("ValueError")
    ELSE LET rest == vformat(t, i + 1, kwargs)
             piece == IF t[i] = "{{" THEN "{" ELSE IF t[i] = "}}" THEN "}" ELSE t[i]
         IN  IF rest.ok THEN Ok(<<[k |-> "text", s |-> <<piece>>]>> \o rest.val) ELSE rest

\* get_quiz_generation_prompt: the template formatted with the five arguments
get_quiz_generation_prompt(title, summary, sections, content, num_questions) ==
    vformat(QUIZ_GENERATION_TEMPLATE, 1,
            {<<"title">>, <<"summary">>, <<"sections">>, <<"content">>, <<"num_questions">>})

\* get_related_topics_prompt
get_related_topics_prompt(title, summary, sections) ==
    vformat(RELATED_TOPICS_TEMPLATE, 1, {<<"title">>, <<"summary">>, <<"sections">>})

\* ------------------------------------------------------- cleaning, parsing

\* the character references html.unescape replaces, of those the model's texts
\* hold, each with and without its semicolon, the longer first
html_entities ==
    << [e |-> <<"&","q","u","o","t",";">>, c |-> "\""], [e |-> <<"&","q","u","o","t">>, c |-> "\""],
       [e |-> <<"&","a","m","p",";">>,  c |-> "&"],  [e |-> <<"&","a","m","p">>,  c |-> "&"],
       [e |-> <<"&","l","t",";">>,   c |-> "<"],  [e |-> <<"&","l","t">>,   c |-> "<"],
       [e |-> <<"&","g","t",";">>,   c |-> ">"],  [e |-> <<"&","g","t">>,   c |-> ">"],
       [e |-> <<"&","#","3","9",";">>,  c |-> "'"],  [e |-> <<"&","#","3","9">>,  c |-> "'"] >>

StartsWithAt(s, i, p) ==
    i >= 1 /\ i + Len(p) - 1 <= Len(s) /\ SubSeq(s, i, i + Len(p) - 1) = p

\* the first of html_entities that stands at i, 0 when none does
entity_at(s, i) == MinOf({n \in 1..Len(html_entities) : StartsWithAt(s, i, html_entities[n].e)})

\* html.unescape from i on, refs holding the indices a reference stands at
RECURSIVE unescape_from(_, _, _)
unescape_at(s, i, j, refs) ==
    SubSeq(s, i, j - 1) \o <<html_entities[entity_at(s, j)].c>>
        \o unescape_from(s, j + Len(html_entities[entity_at(s, j)].e), refs)

unescape_from(s, i, refs) ==
    IF \A j \in refs : j < i THEN SubSeq(s, i, Len(s))
    ELSE unescape_at(s, i, MinOf({j \in refs : j >= i}), refs)

\* html.unescape, scanning from i
html_unescape(s, i) == unescape_from(s, i, {j \in 1..Len(s) : entity_at(s, j) # 0})

\* the last index of ```(?:json)?\s* matched at i
fence_opener_end(s, i) ==
    SpaceRunEnd(s, IF i + 6 <= Len(s) /\ lower(SubSeq(s, i + 3, i + 6)) = <<"j","s","o","n">>
                   THEN i + 6 ELSE i + 2)

\* the text from i on without its fence openers, fences holding the indices
\* a fence stands at
RECURSIVE openers_from(_, _, _)
openers_at(s, i, j, fences) ==
    SubSeq(s, i, j - 1) \o openers_from(s, fence_opener_end(s, j) + 1, fences)

openers_from(s, i, fences) ==
    IF \A j \in fences : j < i THEN SubSeq(s, i, Len(s))
    ELSE openers_at(s, i, MinOf({j \in fences : j >= i}), fences)

\* re.sub(r"```(?:json)?\s*", "", text, flags=re.IGNORECASE), scanning from i
remove_fence_openers(s, i) ==
    openers_from(s, i, {j \in 1..Len(s) : StartsWithAt(s, j, <<Backtick,Backtick,Backtick>>)})

\* re.sub(r"\s*```$", "", text): a fence that ends the text (or stands before
\* its final newline) goes, with the whitespace before it
remove_fence_closer(s) ==
    LET e == IF StartsWithAt(s, Len(s) - 2, <<Backtick,Backtick,Backtick>>) THEN Len(s)
             ELSE IF Len(s) >= 4 /\ s[Len(s)] = "\n" /\ StartsWithAt(s, Len(s) - 3, <<Backtick,Backtick,Backtick>>)
                  THEN Len(s) - 1
             ELSE 0
    IN  IF e = 0 THEN s
        ELSE LET p == CHOOSE q \in 1..(e - 2) :
                          /\ \A m \in q..(e - 3) : IsSpace(s[m])
                          /\ (q = 1 \/ ~IsSpace(s[q - 1]))
             IN  SubSeq(s, 1, p - 1) \o SubSeq(s, e + 1, Len(s))

\* _strip_code_fences
strip_code_fences(text) == strip(remove_fence_closer(remove_fence_openers(text, 1)))

\* depth after the character at j, counting from start_idx
depth_at(text, start_idx, j, open_ch, close_ch) ==
    Cardinality({k \in start_idx..j : text[k] = open_ch})
        - Cardinality({k \in start_idx..j : text[k] = close_ch})

\* matching_close without its depth counter: the first closing bracket
matching_close_first(text, start_idx, open_ch, close_ch) ==
    MinOf({j \in start_idx..Len(text) : text[j] = close_ch})

\* the index of the bracket that closes the one at start_idx, counting only
\* brackets of that kind (the first index the depth is back to 0 at); 0 when
\* the text ends first
matching_close(text, start_idx, open_ch, close_ch) ==
    MinOf({j \in start_idx..Len(text) : depth_at(text, start_idx, j, open_ch, close_ch) = 0})

\* _extract_first_json: Ok(substring), or Ok of None as [found |-> FALSE]
extract_first_json(text0) ==
    LET text   == strip(text0)
        starts == {i \in 1..Len(text) : text[i] \in {"[", "{"}}
    IN  IF starts = {} THEN [found |-> FALSE, s |-> <<>>]
        ELSE LET start_idx == CHOOSE i \in starts : \A k \in starts : i <= k
                 open_ch   == text[start_idx]
                 close_ch  == IF open_ch = "[" THEN "]" ELSE "}"
                 j         == matching_close(text, start_idx, open_ch, close_ch)
             IN  IF j = 0 THEN [found |-> FALSE, s |-> <<>>]
                 ELSE [found |-> TRUE, s |-> SubSeq(text, start_idx, j)]

\* clean_json_response
clean_json_response(response_text) ==
    IF Len(response_text) = 0 THEN Raise("ValueError")
    ELSE LET text      == strip_code_fences(html_unescape(response_text, 1))
             candidate == extract_first_json(text)
             t         == strip(text)
         IN  IF candidate.found /\ Len(candidate.s) > 0 THEN Ok(candidate.s)
             ELSE IF InList("'", t) /\ ~InList("\"", t)
                  THEN Ok([i \in 1..Len(t) |-> IF t[i] = "'" THEN "\"" ELSE t[i]])
                  ELSE Ok(t)

\* ---------------------------------------------------------------- json.loads
\* Strings, integers, true, false, null, arrays and objects: the JSON the
\* model's responses hold (no fraction, exponent or \u escape).

IsJsonSpace(c) == c \in {" ", "\t", "\n", "\r"}

\* the first index at or after i that holds no JSON whitespace
skip_ws(s, i) ==
    CHOOSE j \in i..(Len(s) + 1) :
        /\ \A m \in i..(j - 1) : IsJsonSpace(s[m])
        /\ (j = Len(s) + 1 \/ ~IsJsonSpace(s[j]))

\* a parse step's outcome: the value and the index after it
POk(v, p) == [ok |-> TRUE, val |-> v, pos |-> p]

PFail == [ok |-> FALSE, val |-> JNull, pos |-> 0]

\* the character a backslash escape stands for, "" for one json.loads refuses
escape_char(c) ==
    CASE c = "\"" -> "\""
      [] c = "\\" -> "\\"
      [] c = "/"  -> "/"
      [] c = "n"  -> "\n"
      [] c = "t"  -> "\t"
      [] c = "r"  -> "\r"
      [] OTHER    -> ""

\* the characters of a string literal from j (after its opening quote), acc
\* holding those read so far: up to the closing quote, escapes decoded, a raw
\* control character refused
RECURSIVE scan_string(_, _, _)
scan_to(s, j, k, acc) ==
    IF k = 0 THEN PFail
    ELSE IF s[k] = "\"" THEN POk(acc \o SubSeq(s, j, k - 1), k + 1)
    ELSE IF s[k] = "\\" /\ k + 1 <= Len(s) /\ escape_char(s[k + 1]) # ""
    THEN scan_string(s, k + 2, acc \o SubSeq(s, j, k - 1) \o <<escape_char(s[k + 1])>>)
    ELSE PFail

scan_string(s, j, acc) ==
    scan_to(s, j, MinOf({k \in j..Len(s) : s[k] \in {"\"", "\\", "\n", "\t", "\r"}}), acc)

\* the value of a run of digits
RECURSIVE digits_value(_)
digits_value(ds) ==
    IF Len(ds) = 0 THEN 0
    ELSE 10 * digits_value(SubSeq(ds, 1, Len(ds) - 1))
         + ((CHOOSE n \in 1..10 : DigitChars[n] = ds[Len(ds)]) - 1)

\* -?(0|[1-9][0-9]*) at i
parse_int(s, i) ==
    LET start == IF s[i] = "-" THEN i + 1 ELSE i
    IN  IF start > Len(s) \/ ~IsDigit(s[start]) THEN PFail
        ELSE LET e == IF s[start] = "0" THEN start
                      ELSE CHOOSE k \in start..Len(s) :
                               /\ \A m \in start..k : IsDigit(s[m])
                               /\ (k = Len(s) \/ ~IsDigit(s[k + 1]))
                 n == digits_value(SubSeq(s, start, e))
             IN  POk(JNum(IF s[i] = "-" THEN -n ELSE n), e + 1)

\* d[key] = value on the items of a dict: a key that is there keeps its place
dict_set(items, key, value) ==
    IF \E i \in 1..Len(items) : items[i].k = key
    THEN [i \in 1..Len(items) |-> IF items[i].k = key THEN [k |-> key, v |-> value] ELSE items[i]]
    ELSE Append(items, [k |-> key, v |-> value])

RECURSIVE parse_value(_, _)
RECURSIVE parse_items(_, _, _)
RECURSIVE parse_members(_, _, _)

\* a JSON value at or after i0
parse_value(s, i0) ==
    LET i == skip_ws(s, i0)
    IN  IF i > Len(s) THEN PFail
        ELSE CASE s[i] = "\"" ->
                    LET r == scan_string(s, i + 1, <<>>)
                    IN  IF r.ok THEN POk(JStr(r.val), r.pos) ELSE PFail
               [] s[i] = "[" ->
                    LET j == skip_ws(s, i + 1)
                    IN  IF j <= Len(s) /\ s[j] = "]" THEN POk(JList(<<>>), j + 1)
                        ELSE parse_items(s, j, <<>>)
               [] s[i] = "{" ->
                    LET j == skip_ws(s, i + 1)
                    IN  IF j <= Len(s) /\ s[j] = "}" THEN POk(JDict(<<>>), j + 1)
                        ELSE parse_members(s, j, <<>>)
               [] s[i] = "-" \/ IsDigit(s[i]) -> parse_int(s, i)
               [] StartsWithAt(s, i, <<"t","r","u","e">>)  -> POk(JBool(TRUE), i + 4)
               [] StartsWithAt(s, i, <<"f","a","l","s","e">>) -> POk(JBool(FALSE), i + 5)
               [] StartsWithAt(s, i, <<"n","u","l","l">>)  -> POk(JNull, i + 4)
               [] OTHER -> PFail

\* the elements of an array from i, acc holding those read so far
parse_items(s, i, acc) ==
    LET r == parse_value(s, i)
    IN  IF ~r.ok THEN PFail
        ELSE LET j == skip_ws(s, r.pos)
             IN  IF j > Len(s) THEN PFail
                 ELSE IF s[j] = "," THEN parse_items(s, j + 1, Append(acc, r.val))
                 ELSE IF s[j] = "]" THEN POk(JList(Append(acc, r.val)), j + 1)
                 ELSE PFail

\* the members of an object from i, acc holding those read so far
parse_members(s, i, acc) ==
    IF i > Len(s) \/ s[i] # "\"" THEN PFail
    ELSE LET key == scan_string(s, i + 1, <<>>)
         IN  IF ~key.ok THEN PFail
             ELSE LET c == skip_ws(s, key.pos)
                  IN  IF c > Len(s) \/ s[c] # ":" THEN PFail
                      ELSE LET r == parse_value(s, c + 1)
                           IN  IF ~r.ok THEN PFail
                               ELSE LET j     == skip_ws(s, r.pos)
                                        items == dict_set(acc, key.val, r.val)
                                    IN  IF j > Len(s) THEN PFail
                                        ELSE IF s[j] = ","
                                             THEN parse_members(s, skip_ws(s, j + 1), items)
                                        ELSE IF s[j] = "}" THEN POk(JDict(items), j + 1)
                                        ELSE PFail

\* json.loads
json_loads(s) ==
    LET r == parse_value(s, 1)
    IN  IF r.ok /\ skip_ws(s, r.pos) > Len(s) THEN Ok(r.val) ELSE Raise("JSONDecodeError")

\* ------------------------------------------------------------- orchestrator

\* self._call_model(prompt): what the model does with the call is the input
\* `model`; it raises (a transport failure) or returns its text
call_model(model, prompt) ==
    IF model.raises THEN Raise("TransportError") ELSE Ok(model.text)

\* parsed_list of generate_quiz
reduce_to_list(parsed) ==
    IF parsed.t = "dict"
    THEN IF HasKey(parsed, <<"q","u","e","s","t","i","o","n","s">>) /\ get(parsed, <<"q","u","e","s","t","i","o","n","s">>).t = "list"
         THEN get(parsed, <<"q","u","e","s","t","i","o","n","s">>).v
         ELSE IF get(parsed, <<"q","u","i","z","_","q","u","e","s","t","i","o","n","s">>).t = "list"
              THEN get(parsed, <<"q","u","i","z","_","q","u","e","s","t","i","o","n","s">>).v
              ELSE <<parsed>>
    ELSE IF parsed.t = "list" THEN parsed.v
    ELSE <<parsed>>

\* repaired_questions.append(rq), unless rq or a later question raised
append_repaired(rq, rest) ==
    IF ~rq.ok THEN rq
    ELSE IF ~rest.ok THEN rest
    ELSE Ok(<<rq.val>> \o rest.val)

\* the normalizing loop: entries that are no dict are skipped, the first
\* exception of _repair_question ends the loop
RECURSIVE repair_all(_, _)
repair_all(parsed_list, content) ==
    IF Len(parsed_list) = 0 THEN Ok(<<>>)
    ELSE IF Head(parsed_list).t # "dict" THEN repair_all(Tail(parsed_list), content)
    ELSE append_repaired(repair_question(Head(parsed_list), content),
                         repair_all(Tail(parsed_list), content))

\* not repaired_questions or any(is_placeholder(qd) for qd in repaired_questions)
gate_rejects(repaired_questions) ==
    \/ Len(repaired_questions) = 0
    \/ \E i \in 1..Len(repaired_questions) : is_placeholder(repaired_questions[i])

\* how the try block ends: it raised exc, the gate rejected, or the gate
\* accepted the questions; with the stages gone through and the number of
\* model invocations
Raised(exc, path, invoked) ==
    [kind |-> "raised", exc |-> exc, questions |-> <<>>, path |-> path, invoked |-> invoked]

Rejected(path) ==
    [kind |-> "rejected", exc |-> "none", questions |-> <<>>, path |-> path, invoked |-> 1]

Accepted(questions, path) ==
    [kind |-> "accepted", exc |-> "none", questions |-> questions,
     path |-> path \o <<"Accepted">>, invoked |-> 1]

\* the gate on the outcome of the normalizing loop
on_repaired(rep) ==
    IF ~rep.ok
    THEN Raised(rep.exc, <<"Rendering", "Invoking", "Parsing", "Normalizing">>, 1)
    ELSE IF gate_rejects(rep.val)
    THEN Rejected(<<"Rendering", "Invoking", "Parsing", "Normalizing", "Gating">>)
    ELSE Accepted(rep.val, <<"Rendering", "Invoking", "Parsing", "Normalizing", "Gating">>)

\* the reduction and the normalizing loop on the outcome of json.loads
on_parsed(parsed, content) ==
    IF ~parsed.ok THEN Raised(parsed.exc, <<"Rendering", "Invoking", "Parsing">>, 1)
    ELSE on_repaired(repair_all(reduce_to_list(parsed.val), content))

\* json.loads on the outcome of clean_json_response
on_cleaned(cleaned, content) ==
    IF ~cleaned.ok THEN Raised(cleaned.exc, <<"Rendering", "Invoking", "Parsing">>, 1)
    ELSE on_parsed(json_loads(cleaned.val), content)

\* clean_json_response on the outcome of the model call
on_raw(raw, content) ==
    IF ~raw.ok THEN Raised(raw.exc, <<"Rendering", "Invoking">>, 1)
    ELSE on_cleaned(clean_json_response(raw.val), content)

\* the try block on the outcome of rendering the prompt
try_block(prompt, model, content) ==
    IF ~prompt.ok THEN Raised(prompt.exc, <<"Rendering">>, 0)
    ELSE on_raw(call_model(model, prompt.val), content)

\* handler_catches for `except ValueError`: ValueError and its subclass only
handler_catches_ValueError(exc) == exc \in {"ValueError", "JSONDecodeError"}

\* `except Exception`: every exception the try block can raise is an Exception
handler_catches(exc) == TRUE

\* a call of generate_quiz that returned: the list, the stages it went
\* through, the number of model invocations, and the exception it caught
Returned(result, path, invoked, caught) ==
    [result |-> result, error |-> "none", path |-> path \o <<"Done">>,
     invoked |-> invoked, caught |-> caught]

\* a call of generate_quiz that let the exception of its try block through
Escaped(t) ==
    [result |-> <<>>, error |-> t.exc, path |-> t.path, invoked |-> t.invoked, caught |-> "none"]

\* the number of fallback questions asked for once the try block has ended
\* as t: those missing after the accepted ones, or the full count
fallback_count(t, num_questions) ==
    IF t.kind = "accepted" THEN num_questions - Len(t.questions) ELSE num_questions

\* the return with the fallback questions extra: the accepted questions
\* extended and truncated, or the fallback quiz alone
with_fallback(t, extra, num_questions) ==
    IF t.kind = "accepted"
    THEN Returned(truncate(t.questions \o extra, num_questions), t.path, t.invoked, "none")
    ELSE Returned(extra, t.path \o <<"FallingBack">>, t.invoked, t.exc)

\* the ways generate_quiz may return once its try block has ended as t:
\* accepted questions are padded with fallback questions and truncated, a
\* rejection or a caught exception gives the fallback quiz for the full count
finish(title, summary, num_questions, t) ==
    IF t.kind = "raised" /\ ~handler_catches(t.exc) THEN {Escaped(t)}
    ELSE IF t.kind = "accepted" /\ Len(t.questions) >= num_questions
    THEN {Returned(truncate(t.questions, num_questions), t.path, t.invoked, "none")}
    ELSE {with_fallback(t, extra, num_questions) :
          extra \in generate_fallback_quiz(title, summary, fallback_count(t, num_questions))}

\* generate_quiz from the model call on, entered with a rendered prompt
generate_quiz_body(title, summary, content, num_questions, model, prompt) ==
    finish(title, summary, num_questions, try_block(Ok(prompt), model, content))

\* generate_quiz: the ways a call may end
generate_quiz(title, summary, sections, content, num_questions, model) ==
    finish(title, summary, num_questions,
           try_block(get_quiz_generation_prompt(title, summary, sections, content, num_questions),
                     model, content))

\* ------------------------------------------------------------ related topics

\* topics of generate_related_topics: the value under related_topics of a
\* mapping that has the key (whatever the value is), a list itself, or []
topics_of(parsed) ==
    IF parsed.t = "dict" /\ HasKey(parsed, <<"r","e","l","a","t","e","d","_","t","o","p","i","c","s">>)
    THEN get(parsed, <<"r","e","l","a","t","e","d","_","t","o","p","i","c","s">>)
    ELSE IF parsed.t = "list" THEN parsed
    ELSE JList(<<>>)

\* `for t in topics`: the values the loop visits: the elements of a list, the
\* characters of a string, the keys of a mapping; any other value cannot be
\* iterated and raises TypeError
iterate(topics) ==
    IF topics.t = "list" THEN Ok(topics.v)
    ELSE IF topics.t = "str" THEN Ok([i \in 1..Len(topics.v) |-> JStr(<<topics.v[i]>>)])
    ELSE IF topics.t = "dict" THEN Ok([i \in 1..Len(topics.v) |-> JStr(topics.v[i].k)])
    ELSE Raise("TypeError")

\* keep_topic without its `s not in out` test
keep_topic_repeated(s, out) == IF Len(s) > 0 THEN Append(out, s) ELSE out

\* if s and s not in out: out.append(s)
keep_topic(s, out) == IF Len(s) > 0 /\ ~InList(s, out) THEN Append(out, s) ELSE out

\* the sanitizing loop: values that are no str are skipped, the others are
\* stripped and kept when new
RECURSIVE sanitize(_, _)
sanitize(items, out) ==
    IF Len(items) = 0 THEN out
    ELSE IF Head(items).t # "str" THEN sanitize(Tail(items), out)
    ELSE sanitize(Tail(items), keep_topic(strip(Head(items).v), out))

\* the 5 of out[:5]
MaxTopics == 5

\* the loop and out[:5] on the outcome of iterating topics
topics_on_items(items) ==
    IF ~items.ok THEN items
    ELSE Ok(truncate(sanitize(items.val, <<>>), MaxTopics))

\* the choice of topics and the loop on the outcome of json.loads
topics_on_parsed(parsed) ==
    IF ~parsed.ok THEN parsed ELSE topics_on_items(iterate(topics_of(parsed.val)))

\* json.loads on the outcome of clean_json_response
topics_on_cleaned(cleaned) ==
    IF ~cleaned.ok THEN cleaned ELSE topics_on_parsed(json_loads(cleaned.val))

\* clean_json_response on the outcome of the model call
topics_on_raw(raw) ==
    IF ~raw.ok THEN raw ELSE topics_on_cleaned(clean_json_response(raw.val))

\* the try block of generate_related_topics on the outcome of rendering
topics_try(prompt, model) ==
    IF ~prompt.ok THEN prompt ELSE topics_on_raw(call_model(model, prompt.val))

\* the return of generate_related_topics once its try block has ended as t:
\* the list, or [] when the handler caught an exception
topics_finish(t) ==
    IF t.ok THEN [result |-> t.val, error |-> "none", caught |-> "none"]
    ELSE IF handler_catches(t.exc) THEN [result |-> <<>>, error |-> "none", caught |-> t.exc]
    ELSE [result |-> <<>>, error |-> t.exc, caught |-> "none"]

\* QuizGenerator.generate_related_topics
generate_related_topics(title, summary, sections, model) ==
    topics_finish(topics_try(get_related_topics_prompt(title, summary, sections), model))

\* ------------------------------------------------------------------ inputs

\* the largest num_questions a call is made with
MaxN == 3

Entry(key, value) == <<[k |-> key, v |-> value]>>

StrList(xs) == JList([i \in 1..Len(xs) |-> JStr(xs[i])])

\* the "options" entry of a model question: absent, lists of strings, a list
\* of numbers, a list with falsy members, a dict and a newline-separated string
OptionInputs == <<
    <<>>,
    Entry(<<"o","p","t","i","o","n","s">>, StrList(<<<<"A">>, <<"B">>, <<"C">>, <<"D">>>>)),
    Entry(<<"o","p","t","i","o","n","s">>, StrList(<<<<"P","a","r","i","s"," ">>, <<" ","P","a","r","i","s">>, <<"R","o","m","e">>>>)),
    Entry(<<"o","p","t","i","o","n","s">>, StrList(<<<<"a"," "," ","b">>, <<"a"," ","b">>, <<"a"," ","b"," ">>, <<"c">>, <<"d">>>>)),
    Entry(<<"o","p","t","i","o","n","s">>, JList(<<JNum(1), JNum(2), JNum(3), JNum(4)>>)),
    Entry(<<"o","p","t","i","o","n","s">>, JList(<<JNull, JStr(<<>>), JStr(<<"x">>), JNum(0), JStr(<<" "," ">>)>>)),
    Entry(<<"o","p","t","i","o","n","s">>, JDict(Entry(<<"A">>, JStr(<<"x">>)) \o Entry(<<"B">>, JStr(<<"y">>)))),
    Entry(<<"o","p","t","i","o","n","s">>, JStr(<<"o","n","e","\n","t","w","o","\n","\n"," ","t","h","r","e","e"," ">>)),
    Entry(<<"o","p","t","i","o","n","s">>, StrList(<<<<"T","o","p","i","c"," ","A">>, <<"T","o","p","i","c"," ","B">>, <<"T","o","p","i","c"," ","C">>, <<"R","e","a","l","A","n","s","w","e","r">>>>)),
    Entry(<<"o","p","t","i","o","n","s">>, StrList(<<<<"N","e","w"," ","Y","o","r","k">>, <<"H","i","s","t","o","r","y">>, <<"1","9">>>>)),
    Entry(<<"o","p","t","i","o","n","s">>, StrList(<<<<"P","a","r","i","s",","," ","T","e","x","a","s">>, <<"P","a","r","i","s">>, <<"L","y","o","n">>, <<"N","i","c","e">>>>)),
    Entry(<<"o","p","t","i","o","n","s">>, StrList(<<<<"B">>, <<"A">>, <<"C">>, <<"D">>>>))
>>

\* the "answer" entry
AnswerInputs == <<
    <<>>,
    Entry(<<"a","n","s","w","e","r">>, JStr(<<"B">>)),
    Entry(<<"a","n","s","w","e","r">>, JStr(<<" ","b"," ">>)),
    Entry(<<"a","n","s","w","e","r">>, JStr(<<"P","a","r","i","s">>)),
    Entry(<<"a","n","s","w","e","r">>, JStr(<<"T","h","e"," ","c","i","t","y"," ","o","f"," ","P","a","r","i","s">>)),
    Entry(<<"a","n","s","w","e","r">>, JStr(<<"r","o","m","e">>)),
    Entry(<<"a","n","s","w","e","r">>, JNum(2)),
    Entry(<<"c","o","r","r","e","c","t">>, JStr(<<"z","z","z">>))
>>

\* the question, difficulty, explanation and section entries
MetaInputs == <<
    <<>>,
    Entry(<<"q","u","e","s","t","i","o","n">>, JStr(<<"Q","1">>)) \o Entry(<<"d","i","f","f","i","c","u","l","t","y">>, JStr(<<"E","A","S","Y">>))
        \o Entry(<<"e","x","p","l","a","n","a","t","i","o","n">>, JStr(<<>>)) \o Entry(<<"s","e","c","t","i","o","n">>, JStr(<<>>)),
    Entry(<<"q","u","e","s","t","i","o","n">>, JStr(<<" "," ">>)) \o Entry(<<"d","i","f","f","i","c","u","l","t","y">>, JStr(<<"H","a","r","d">>)),
    Entry(<<"q","u","e","s","t","i","o","n">>, JStr(<<" ","Q","2"," ">>)) \o Entry(<<"e","x","p","l","a","n","a","t","i","o","n">>, JStr(<<" "," ">>)),
    Entry(<<"q","u","e","s","t","i","o","n">>, JStr(<<"Q","3">>)) \o Entry(<<"s","e","c","t","i","o","n">>, JStr(<<" "," ">>))
        \o Entry(<<"e","x","p","l","a","n","a","t","i","o","n">>, JStr(<<" ","b","e","c","a","u","s","e"," ">>)),
    Entry(<<"d","i","f","f","i","c","u","l","t","y">>, JNum(3)),
    Entry(<<"e","x","p","l","a","n","a","t","i","o","n">>, JNum(7)),
    Entry(<<"q","u","e","s","t","i","o","n">>, JNum(3)) \o Entry(<<"d","i","f","f","i","c","u","l","t","y">>, JStr(<<"e","x","t","r","e","m","e">>))
        \o Entry(<<"s","e","c","t","i","o","n">>, JNum(7)),
    Entry(<<"t","e","x","t">>, JStr(<<"T">>)) \o Entry(<<"d","i","f","f","i","c","u","l","t","y">>, JStr(<<"m","e","d","i","u","m">>))
        \o Entry(<<"e","x","p","l","a","i","n">>, JStr(<<"E">>)) \o Entry(<<"s","e","c","t","i","o","n">>, JStr(<<"D","e","s","i","g","n">>))
>>

\* the article text the distractors are drawn from
Contents == <<
    <<>>,
    <<"I","n"," ","1","9","9","9"," ","N","e","w"," ","Y","o","r","k"," ","a","n","d"," ","N","e","w"," "," ","Y","o","r","k"," ","m","e","t"," ","P","a","r","i","s",".">>,
    <<"H","i","s","t","o","r","y"," ","2","0","0","5">>
>>

\* option lists of normalized questions the gate is asked about
GateInputs == <<
    <<<<"A">>, <<"B">>, <<"C">>, <<"D">>>>,
    <<<<"T","o","p","i","c"," ","A">>, <<"T","o","p","i","c"," ","B">>, <<"T","o","p","i","c"," ","C">>, <<"R","e","a","l","A","n","s","w","e","r">>>>,
    <<<<"T","o","p","i","c"," ","A">>, <<"P","a","r","i","s">>, <<"L","o","n","d","o","n">>, <<"B","e","r","l","i","n">>>>,
    <<<<"T","o","p","i","c"," ","A"," ","F","a","c","t"," ","B"," ","O","p","t","i","o","n"," ","1">>, <<"P","a","r","i","s">>, <<"L","o","n","d","o","n">>, <<"B","e","r","l","i","n">>>>,
    <<<<"O","p","t","i","o","n"," ","1"," ","O","p","t","i","o","n"," ","2">>, <<"T","o","p","i","c"," ","A">>, <<"R","o","m","e">>, <<"O","s","l","o">>>>,
    <<<<"F","a","c","t"," ","A">>, <<"F","a","c","t"," ","B">>, <<"F","a","c","t"," ","C">>, <<"F","a","c","t"," ","D">>>>,
    <<<<"t","o","p","i","c"," "," ","x">>, <<"F","A","C","T"," ","q">>, <<"o","p","t","i","o","n"," ","1","2">>, <<"z">>>>,
    <<<<"T","o","p","i","c"," ","A">>, <<"F","a","c","t"," ","B">>, <<"R","o","m","e">>, <<"O","s","l","o">>>>,
    <<<<"B">>, <<"A">>, <<"C">>, <<"D">>>>,
    <<<<"S","u","b","t","o","p","i","c"," ","a">>, <<"O","p","t","i","o","n"," ","1">>, <<"a","r","t","i","f","a","c","t"," ","b">>, <<"x">>>>,
    <<<<"R","o","m","e">>, <<"P","a","r","i","s">>, <<"O","s","l","o">>, <<"B","e","r","n">>>>,
    <<<<"D">>, <<"C">>, <<"B">>, <<"A">>>>
>>

Titles == <<<<"T","r","a","c","t","o","r">>, <<>>, <<"O","t","h","e","r">>>>

Summaries == <<
    <<>>,
    <<"T","h","e"," ","t","r","a","c","t","o","r"," ","w","a","s"," ","i","n","v","e","n","t","e","d"," ","i","n"," ","1","8","9","2"," ","i","n"," ","I","o","w","a",".">>,
    <<"T","r","a","c","t","o","r"," ","a","n","d"," ","O","t","h","e","r"," ","m","a","c","h","i","n","e","s",".">>
>>

SectionLists == << <<>>, <<<<"H","i","s","t","o","r","y">>, <<"D","e","s","i","g","n">>>> >>

\* what the model does when it is called
Models == <<
    [raises |-> TRUE, text |-> <<>>],
    [raises |-> FALSE, text |-> <<>>],
    [raises |-> FALSE, text |-> <<"o","o","p","s">>],
    [raises |-> FALSE, text |-> <<"H","e","r","e"," ","i","s"," ","t","h","e"," ","q","u","i","z",":","\n",Backtick,Backtick,Backtick,"j","s","o","n","\n","[","{","\"","q","u","e","s","t","i","o","n","\"",":","\"","Q","1","\"",",","\"","o","p","t","i","o","n","s","\"",":","[","\"","A","\"",",","\"","B","\"",",","\"","C","\"",",","\"","D","\"","]",",","\"","a","n","s","w","e","r","\"",":","\"","B","\"",",","\"","d","i","f","f","i","c","u","l","t","y","\"",":","\"","E","A","S","Y","\"",",","\"","e","x","p","l","a","n","a","t","i","o","n","\"",":","\"","\"",",","\"","s","e","c","t","i","o","n","\"",":","\"","\"","}","]","\n",Backtick,Backtick,Backtick>>],
    [raises |-> FALSE, text |-> <<"[","{","\"","o","p","t","i","o","n","s","\"",":","[","\"","T","o","p","i","c"," ","A","\"",",","\"","T","o","p","i","c"," ","B","\"",",","\"","T","o","p","i","c"," ","C","\"",",","\"","X","\"","]","}","]">>],
    [raises |-> FALSE, text |-> <<"[","{","\"","o","p","t","i","o","n","s","\"",":","[","1",",","2","]","}","]">>],
    [raises |-> FALSE, text |-> <<"{","\"","q","u","e","s","t","i","o","n","s","\"",":","[","{","\"","o","p","t","i","o","n","s","\"",":","[","\"","R","o","m","e","\"",",","\"","O","s","l","o","\"","]",",","\"","a","n","s","w","e","r","\"",":","\"","O","s","l","o","\"","}",",","5","]","}">>]
>>

\* what the model does when it is asked for related topics
TopicModels == <<
    [raises |-> TRUE, text |-> <<>>],
    [raises |-> FALSE, text |-> <<>>],
    [raises |-> FALSE, text |-> <<"o","o","p","s">>],
    [raises |-> FALSE, text |-> <<"{","\"","r","e","l","a","t","e","d","_","t","o","p","i","c","s","\"",":"," ","[","\"","P","l","o","w","\"",","," ","\"","P","l","o","w","\"",","," ","\"","H","a","r","v","e","s","t","e","r","\"","]","}">>],
    [raises |-> FALSE, text |-> <<"[","\""," ","P","l","o","w"," ","\"",",","\"","P","l","o","w","\"",",","5",",","n","u","l","l",",","\"","\"",",","\""," ","\"",",","[","\"","A","x","l","e","\"","]",",","\"","S","e","e","d"," ","d","r","i","l","l","\"","]">>],
    [raises |-> FALSE, text |-> <<"[","\"","a","\"",",","\"","b","\"",",","\"","a","\"",",","\"","c","\"",",","\"","d","\"",",","\"","e","\"",",","\"","f","\"",",","\"","g","\"","]">>],
    [raises |-> FALSE, text |-> <<"{","\"","r","e","l","a","t","e","d","_","t","o","p","i","c","s","\"",":"," ","\"","P","l","o","w","\"","}">>],
    [raises |-> FALSE, text |-> <<"{","\"","r","e","l","a","t","e","d","_","t","o","p","i","c","s","\"",":"," ","{","\"","P","l","o","w","\"",":"," ","1",","," ","\""," ","H","a","r","v","e","s","t","e","r","\"",":"," ","2","}","}">>],
    [raises |-> FALSE, text |-> <<"{","\"","r","e","l","a","t","e","d","_","t","o","p","i","c","s","\"",":"," ","5","}">>],
    [raises |-> FALSE, text |-> <<"{","\"","r","e","l","a","t","e","d","_","t","o","p","i","c","s","\"",":"," ","n","u","l","l","}">>],
    [raises |-> FALSE, text |-> <<"{","\"","t","o","p","i","c","s","\"",":"," ","[","\"","P","l","o","w","\"","]","}">>],
    [raises |-> FALSE, text |-> <<Backtick,Backtick,Backtick,"j","s","o","n","\n","{","\"","r","e","l","a","t","e","d","_","t","o","p","i","c","s","\"",":"," ","[","\"","P","l","o","w","\"","]","}","\n",Backtick,Backtick,Backtick>>],
    [raises |-> FALSE, text |-> <<"\"","P","l","o","w","\"">>],
    [raises |-> FALSE, text |-> <<"[","\"","P","l","o","w","\"",","," ","\"","H","a","r","v","e","s","t","e","r","\"">>]
>>

\* JSON texts a response may hold, each a JSON array or object
JsonTexts == <<
    <<"[","]">>,
    <<"{","\"","a","\"",":"," ","[","1",","," ","{","\"","b","\"",":"," ","2","}","]",","," ","\"","c","\"",":"," ","\"","x"," ","y","\"","}">>,
    <<"[","{","\"","q","u","e","s","t","i","o","n","\"",":","\"","Q","1","\"",",","\"","o","p","t","i","o","n","s","\"",":","[","\"","A","\"",",","\"","B","\"",",","\"","C","\"",",","\"","D","\"","]",",","\"","a","n","s","w","e","r","\"",":","\"","B","\"","}","]">>,
    <<"["," ","1",",","\n"," "," ","[","2",","," ","[","3","]","]"," ","]">>,
    <<"{","\"","k","\"",":"," ","\"","i","t","'","s","\"","}">>,
    <<"[","\"","s","a","y"," ","\\","\"","h","i","\\","\"","\"","]">>,
    <<"[","\"","A"," ","&","a","m","p",";"," ","B","\"","]">>,
    <<"{","\"","t","a","g","\"",":"," ","\"","&","l","t",";","b","&","g","t",";","\"","}">>,
    <<"[","\"","x",Backtick,Backtick,Backtick,"y","\"","]">>,
    <<"[","\"","a","]","b","\"","]">>,
    <<"{","\"","a","\"",":"," ","\"","}","\"","}">>
>>

\* the response texts built from x: x as it is, and x inside a json code
\* fence (the fence line, x, the closing fence)
Responses(x) == <<x, <<Backtick,Backtick,Backtick,"j","s","o","n","\n">> \o x \o <<"\n",Backtick,Backtick,Backtick>>>>

\* ----------------------------------------------------------- state machine

\* op: the operation that has just returned ("idle" between operations);
\* inp: its arguments; out: what it returned or raised
VARIABLES op, inp, out

\* seed: the state the process-wide generator of the random module had when
\* the process started; rng: the state it has now; calls: the calls of
\* generate_quiz that run in the process at the same time, each with its
\* position and its local variables (none while operations run one by one)
VARIABLES seed, rng, calls

\* store: the table wiki_articles, its rows and the id the next insert gets;
\* reqs: the HTTP requests being served, each with its position in its
\* handler and its local variables (none while no request is served)
VARIABLES store, reqs

vars == <<op, inp, out, seed, rng, calls, store, reqs>>

Init ==
    /\ op = "idle"
    /\ inp = <<>>
    /\ out = <<>>
    /\ seed = 0
    /\ rng = 0
    /\ calls = <<>>
    /\ store = [rows |-> {}, next_id |-> 1]
    /\ reqs = <<>>

\* QuizGenerator._repair_question(q, article_content)
RepairQuestion ==
    /\ op = "idle"
    /\ UNCHANGED <<seed, rng, calls, store, reqs>>
    /\ \E o \in 1..Len(OptionInputs), a \in 1..Len(AnswerInputs),
          m \in 1..Len(MetaInputs), c \in 1..Len(Contents) :
          \E q \in {JDict(MetaInputs[m] \o OptionInputs[o] \o AnswerInputs[a])} :
              /\ op' = "repair_question"
              /\ inp' = [q |-> q, article_content |-> Contents[c]]
              /\ out' = repair_question(q, Contents[c])

\* is_placeholder(qd) on a normalized question
IsPlaceholder ==
    /\ op = "idle"
    /\ UNCHANGED <<seed, rng, calls, store, reqs>>
    /\ \E g \in 1..Len(GateInputs) :
          \E rq \in {repair_question(JDict(Entry(<<"o","p","t","i","o","n","s">>, StrList(GateInputs[g]))), Contents[1])} :
              /\ rq.ok
              /\ op' = "is_placeholder"
              /\ inp' = rq.val
              /\ out' = is_placeholder(rq.val)

\* QuizGenerator._generate_fallback_quiz(title, summary, num_questions)
GenerateFallbackQuiz ==
    /\ op = "idle"
    /\ UNCHANGED <<seed, rng, calls, store, reqs>>
    /\ \E t \in 1..Len(Titles), s \in 1..Len(Summaries), n \in 0..MaxN :
          \E r \in generate_fallback_quiz(Titles[t], Summaries[s], n) :
              /\ op' = "generate_fallback_quiz"
              /\ inp' = [title |-> Titles[t], summary |-> Summaries[s], num_questions |-> n]
              /\ out' = r

\* QuizGenerator.generate_quiz(title, summary, sections, content, num_questions)
GenerateQuiz ==
    /\ op = "idle"
    /\ UNCHANGED <<seed, rng, calls, store, reqs>>
    /\ \E t \in 1..Len(Titles), s \in 1..Len(Summaries), k \in 1..Len(SectionLists),
          n \in 0..MaxN, m \in 1..Len(Models) :
          \E o \in generate_quiz(Titles[t], Summaries[s], SectionLists[k], Summaries[s], n, Models[m]) :
              /\ op' = "generate_quiz"
              /\ inp' = [title |-> Titles[t], summary |-> Summaries[s],
                         sections |-> SectionLists[k], content |-> Summaries[s],
                         num_questions |-> n, model |-> Models[m]]
              /\ out' = o

\* generate_quiz from its line 344 on, as it runs once the prompt is rendered.
\* The template as shipped never renders (get_quiz_generation_prompt raises),
\* so no call of generate_quiz gets this far: the action shows what the model
\* call, the parsing, the normalizing and the gate do with each behaviour of
\* the model.
GenerateQuizBody ==
    /\ op = "idle"
    /\ UNCHANGED <<seed, rng, calls, store, reqs>>
    /\ \E t \in 1..Len(Titles), s \in 1..Len(Summaries), n \in 0..MaxN, m \in 1..Len(Models) :
          \E o \in generate_quiz_body(Titles[t], Summaries[s], Summaries[s], n, Models[m], <<"p","r","o","m","p","t">>) :
              /\ op' = "generate_quiz_body"
              /\ inp' = [title |-> Titles[t], summary |-> Summaries[s],
                         sections |-> <<>>, content |-> Summaries[s],
                         num_questions |-> n, model |-> Models[m]]
              /\ out' = o

\* QuizGenerator.generate_related_topics(title, summary, sections)
GenerateRelatedTopics ==
    /\ op = "idle"
    /\ UNCHANGED <<seed, rng, calls, store, reqs>>
    /\ \E t \in 1..Len(Titles), s \in 1..Len(Summaries), k \in 1..Len(SectionLists),
          m \in 1..Len(TopicModels) :
          /\ op' = "generate_related_topics"
          /\ inp' = [title |-> Titles[t], summary |-> Summaries[s],
                     sections |-> SectionLists[k], model |-> TopicModels[m]]
          /\ out' = generate_related_topics(Titles[t], Summaries[s], SectionLists[k], TopicModels[m])

\* QuizGenerator.clean_json_response(response_text), on a JSON text or on
\* the text inside a code fence
CleanJsonResponse ==
    /\ op = "idle"
    /\ UNCHANGED <<seed, rng, calls, store, reqs>>
    /\ \E x \in 1..Len(JsonTexts), w \in 1..2 :
          /\ op' = "clean_json_response"
          /\ inp' = [response_text |-> Responses(JsonTexts[x])[w], x |-> JsonTexts[x]]
          /\ out' = clean_json_response(Responses(JsonTexts[x])[w])

\* the caller takes the result; the generator is ready for the next call
Return ==
    /\ op # "idle"
    /\ UNCHANGED <<seed, rng, calls, store, reqs>>
    /\ op' = "idle"
    /\ inp' = <<>>
    /\ out' = <<>>

Next ==
    \/ RepairQuestion
    \/ IsPlaceholder
    \/ GenerateFallbackQuiz
    \/ GenerateQuiz
    \/ GenerateQuizBody
    \/ GenerateRelatedTopics
    \/ CleanJsonResponse
    \/ Return

Spec == Init /\ [][Next]_vars

\* ------------------------------------------- calls that run at the same time

\* the calls of generate_quiz in flight (the route calls the one
\* module-level QuizGenerator for every request)
Calls == {1, 2}

\* a call that has not started: its arguments
ReadyCall(title, summary, num_questions) ==
    [pc |-> "ready", title |-> title, summary |-> summary, num_questions |-> num_questions,
     head |-> <<>>, count |-> 0, seeds |-> <<>>, k |-> 0, questions |-> <<>>, result |-> <<>>]

InitConcurrent ==
    /\ op = "idle"
    /\ inp = <<>>
    /\ out = <<>>
    /\ seed \in 0..(RngStates - 1)
    /\ rng = seed
    /\ store = [rows |-> {}, next_id |-> 1]
    /\ reqs = <<>>
    /\ calls \in [Calls -> {ReadyCall(Titles[1], Summaries[s], n) :
                            s \in 1..Len(Summaries), n \in {1, MaxN}}]

\* the call with its try block ended as t: it returns the accepted questions
\* when they are enough, and otherwise enters _generate_fallback_quiz for
\* count questions, which computes caps and years, appends main_q and lists
\* the seeds (lines 248-280)
started(call, t, caps, years) ==
    IF t.kind = "accepted" /\ Len(t.questions) >= call.num_questions
    THEN [call EXCEPT !.pc = "returned", !.result = truncate(t.questions, call.num_questions)]
    ELSE [call EXCEPT !.pc = "fallback",
                      !.head = t.questions,
                      !.count = fallback_count(t, call.num_questions),
                      !.seeds = fallback_seeds(years, caps),
                      !.k = 1,
                      !.questions = <<main_q(call.title, caps)>>]

\* call c runs generate_quiz up to the seed loop of the fallback
StartCall(c) ==
    /\ calls[c].pc = "ready"
    /\ \E t \in {try_block(get_quiz_generation_prompt(calls[c].title, calls[c].summary, <<>>,
                                                      calls[c].summary, calls[c].num_questions),
                           Models[4], calls[c].summary)} :
          calls' = [calls EXCEPT ![c] =
                       started(calls[c], t,
                               fromkeys(FindCaps(strip(calls[c].summary), 1)),
                               fromkeys(FindYears(strip(calls[c].summary), 1,
                                                  << <<"1","8">>, <<"1","9">>, <<"2","0">> >>)))]
    /\ UNCHANGED <<op, inp, out, seed, rng, store, reqs>>

\* call c runs one iteration of the seed loop (lines 283-302): it shuffles
\* with the process-wide generator and moves it on
ShuffleSeed(c) ==
    /\ calls[c].pc = "fallback"
    /\ calls[c].k <= Len(calls[c].seeds)
    /\ Len(calls[c].questions) < calls[c].count
    /\ calls' = [calls EXCEPT
                   ![c].questions =
                       Append(@, seed_question(calls[c].k + 1, calls[c].seeds[calls[c].k],
                                  shuffle_with(other_choices(fromkeys(calls[c].seeds[calls[c].k].pool)),
                                               rng))),
                   ![c].k = @ + 1]
    /\ rng' = advance(rng)
    /\ UNCHANGED <<op, inp, out, seed, store, reqs>>

\* call c leaves the seed loop, fills up with concept questions, truncates
\* and returns (lines 305-317, 390-401)
ReturnCall(c) ==
    /\ calls[c].pc = "fallback"
    /\ calls[c].k > Len(calls[c].seeds) \/ Len(calls[c].questions) >= calls[c].count
    /\ calls' = [calls EXCEPT
                   ![c].pc = "returned",
                   ![c].result =
                       truncate(calls[c].head
                                    \o truncate(clone_concept_questions(calls[c].questions,
                                                                        calls[c].title, calls[c].count),
                                                calls[c].count),
                                calls[c].num_questions)]
    /\ UNCHANGED <<op, inp, out, seed, rng, store, reqs>>

NextConcurrent == \E c \in Calls : StartCall(c) \/ ShuffleSeed(c) \/ ReturnCall(c)

SpecConcurrent == InitConcurrent /\ [][NextConcurrent]_vars

\* ------------------------------------------------- API and persistence layer

\* urlparse(url).netloc for a URL of the form scheme://netloc/path: what
\* stands between the first "//" and the next "/", "?" or "#"; a URL without
\* "//" after its scheme has an empty netloc
netloc(url) ==
    IF ~\E i \in 1..(Len(url) - 1) : url[i] = "/" /\ url[i + 1] = "/"
          /\ (i = 1 \/ url[i - 1] = ":") /\ ~InList("/", SubSeq(url, 1, i - 1))
    THEN <<>>
    ELSE SubSeq(url,
                MinOf({i \in 1..(Len(url) - 1) : url[i] = "/" /\ url[i + 1] = "/"}) + 2,
                MinOf({j \in (MinOf({i \in 1..(Len(url) - 1) : url[i] = "/" /\ url[i + 1] = "/"}) + 2)
                                ..(Len(url) + 1) :
                          j = Len(url) + 1 \/ url[j] \in {"/", "?", "#"}}) - 1)

\* WikiScraper.validate_url
validate_url(url) == Contains(netloc(url), <<"w","i","k","i","p","e","d","i","a",".","o","r","g">>)

\* the URLs requests name: an article, a second article, and a URL that has
\* wikipedia.org in its path only
Urls == <<
    <<"h","t","t","p","s",":","/","/","e","n",".","w","i","k","i","p","e","d","i","a",".","o","r","g","/","w","i","k","i","/","T","r","a","c","t","o","r">>,
    <<"h","t","t","p","s",":","/","/","e","n",".","w","i","k","i","p","e","d","i","a",".","o","r","g","/","w","i","k","i","/","P","l","o","u","g","h">>,
    <<"h","t","t","p","s",":","/","/","e","x","a","m","p","l","e",".","c","o","m","/","w","i","k","i","p","e","d","i","a",".","o","r","g">>
>>

\* the rows of the table that satisfy a filter on url or id; first() takes
\* one of them, None being [found |-> FALSE]
NoArticle == [found |-> FALSE, id |-> 0, url |-> <<>>, quiz_questions |-> <<>>, related_topics |-> <<>>]

Article(id, url, quiz_questions, related_topics) ==
    [found |-> TRUE, id |-> id, url |-> url,
     quiz_questions |-> quiz_questions, related_topics |-> related_topics]

\* QuizCRUD.get_article_by_url
get_article_by_url(db, url) ==
    IF \E r \in db.rows : r.url = url THEN CHOOSE r \in db.rows : r.url = url ELSE NoArticle

\* QuizCRUD.get_article_by_id
get_article_by_id(db, article_id) ==
    IF \E r \in db.rows : r.id = article_id THEN CHOOSE r \in db.rows : r.id = article_id
    ELSE NoArticle

\* create_article without the unique index on url: the insert always commits
create_article_no_index(db, url, quiz_questions, related_topics) ==
    [ok |-> TRUE, exc |-> "none",
     article |-> Article(db.next_id, url, quiz_questions, related_topics),
     db |-> [rows |-> db.rows \cup {Article(db.next_id, url, quiz_questions, related_topics)},
             next_id |-> db.next_id + 1]]

\* QuizCRUD.create_article: the commit inserts the row under the next id, or
\* raises IntegrityError when a row with the url exists (url is unique,
\* models.py line 11) and leaves the table as it is
create_article(db, url, quiz_questions, related_topics) ==
    IF \E r \in db.rows : r.url = url
    THEN [ok |-> FALSE, exc |-> "IntegrityError", article |-> NoArticle, db |-> db]
    ELSE [ok |-> TRUE, exc |-> "none",
          article |-> Article(db.next_id, url, quiz_questions, related_topics),
          db |-> [rows |-> db.rows \cup {Article(db.next_id, url, quiz_questions, related_topics)},
                  next_id |-> db.next_id + 1]]

\* QuizCRUD.update_article: the row with the id gets the new values; None
\* when there is no such row
update_article(db, article_id, url, quiz_questions, related_topics) ==
    IF ~\E r \in db.rows : r.id = article_id
    THEN [ok |-> TRUE, exc |-> "none", article |-> NoArticle, db |-> db]
    ELSE [ok |-> TRUE, exc |-> "none",
          article |-> Article(article_id, url, quiz_questions, related_topics),
          db |-> [rows |-> {r \in db.rows : r.id # article_id}
                              \cup {Article(article_id, url, quiz_questions, related_topics)},
                  next_id |-> db.next_id]]

\* QuizCRUD.delete_article: success, and the table after it
delete_article(db, article_id) ==
    [success |-> \E r \in db.rows : r.id = article_id,
     db |-> [rows |-> {r \in db.rows : r.id # article_id}, next_id |-> db.next_id]]

\* what the scraper extracts from the page behind each of Urls when the fetch
\* succeeds: a heading, no paragraph of more than 100 characters (get_summary
\* returns ""), no section headings
Pages == <<
    [title |-> <<"T","r","a","c","t","o","r">>, summary |-> <<>>, sections |-> <<>>],
    [title |-> <<"P","l","o","u","g","h">>, summary |-> <<>>, sections |-> <<>>],
    [title |-> <<"U","n","k","n","o","w","n">>, summary |-> <<>>, sections |-> <<>>]
>>

page_of(url) == Pages[CHOOSE i \in 1..Len(Urls) : Urls[i] = url]

\* what the model does when generate_related_topics calls it from a request:
\* it supplies a list of topics, or the call fails
RequestTopicModels == <<TopicModels[1], TopicModels[Len(TopicModels)]>>

\* what the model does when generate_quiz calls it from a request
RequestModels == <<Models[1], Models[Len(Models)]>>

\* the requests served at the same time, by the workers that share the table
Reqs == 1..2

\* the highest id the table hands out before the model stops inserting
MaxId == 2

\* the texts of the HTTP error responses
InvalidUrlDetail == <<"I","n","v","a","l","i","d"," ","W","i","k","i","p","e","d","i","a"," ","U","R","L">>

UrlExistsDetail == <<"A","r","t","i","c","l","e"," ","U","R","L"," ","a","l","r","e","a","d","y"," ","e","x","i","s","t","s">>

NotFoundDetail == <<"Q","u","i","z"," ","n","o","t"," ","f","o","u","n","d">>

FetchFailedDetail == <<"F","a","i","l","e","d"," ","t","o"," ","f","e","t","c","h"," ","a","r","t","i","c","l","e"," ","c","o","n","t","e","n","t">>

\* str(e) of the pydantic ValidationError that model_validate raises
ValidationErrorDetail == <<"v","a","l","i","d","a","t","i","o","n"," ","e","r","r","o","r"," ","f","o","r"," ","Q","u","i","z","G","e","n","e","r","a","t","i","o","n","R","e","s","p","o","n","s","e">>

DeletedMessage == <<"Q","u","i","z"," ","d","e","l","e","t","e","d"," ","s","u","c","c","e","s","s","f","u","l","l","y">>

\* str(e) of HTTPException(status_code=404, detail=...): "404: " and the detail
\* where the installed Starlette defines HTTPException.__str__, the empty
\* str of an exception without arguments where it does not
str_http_404(detail) == {<<"4","0","4",":"," ">> \o detail, <<>>}

\* a slot that serves no request
NoRequest ==
    [kind |-> "none", pc |-> "idle", url |-> <<>>, article_id |-> 0,
     existing |-> NoArticle, quiz_questions |-> <<>>, related_topics |-> <<>>,
     scraped |-> FALSE, generated |-> FALSE,
     status |-> 0, detail |-> <<>>, body |-> NoArticle]

\* `if existing and existing.quiz_questions` answering no for every record
has_quiz_never(existing) == FALSE

\* `if existing and existing.quiz_questions`: a record was found and its quiz
\* is a non-empty list
has_quiz(existing) == existing.found /\ Len(existing.quiz_questions) > 0

\* extract_list of _normalize_article_for_response: a list is returned as it
\* is, and the column quiz_questions holds lists only
extract_list(value) == value

\* _normalize_article_for_response: the fields of the response taken from the
\* record (id is None when the record is None), related_topics or []
normalize_article_for_response(article) ==
    [found |-> article.found, id |-> article.id, url |-> article.url,
     quiz_questions |-> extract_list(article.quiz_questions),
     related_topics |-> IF Len(article.related_topics) = 0 THEN <<>> ELSE article.related_topics]

\* QuizGenerationResponse.model_validate: id must be an int, so the fields
\* normalized from None are refused
model_validate(item) == IF item.found THEN Ok(item) ELSE Raise("ValidationError")

\* the handler's response: the request ends with a status, and a detail
\* (errors) or a body
respond(r, status, detail, body) ==
    [r EXCEPT !.pc = "done", !.status = status, !.detail = detail, !.body = body]

\* return QuizGenerationResponse.model_validate(normalized) inside the try of
\* a route: 200 with the fields, or 500 through `except Exception`
respond_article(r, article) ==
    IF model_validate(normalize_article_for_response(article)).ok
    THEN respond(r, 200, <<>>, normalize_article_for_response(article))
    ELSE respond(r, 500, ValidationErrorDetail, NoArticle)

\* the state of the API layer as the application starts on an empty table
InitStore ==
    /\ op = "idle" /\ inp = <<>> /\ out = <<>> /\ seed = 0 /\ rng = 0 /\ calls = <<>>
    /\ store = [rows |-> {}, next_id |-> 1]
    /\ reqs = [c \in Reqs |-> NoRequest]

\* POST /api/quiz/generate?url=...: a worker takes the request
ReceiveGenerate(c) ==
    /\ reqs[c].pc = "idle"
    /\ \E u \in 1..Len(Urls) :
          reqs' = [reqs EXCEPT ![c] = [NoRequest EXCEPT !.kind = "generate", !.pc = "lookup",
                                                       !.url = Urls[u]]]
    /\ UNCHANGED <<op, inp, out, seed, rng, calls, store>>

\* generate_quiz of routes/quiz.py, lines 115-122: the lookup by url, the
\* stored record returned when it has a quiz, the URL validated otherwise
Lookup(c) ==
    /\ reqs[c].kind = "generate" /\ reqs[c].pc = "lookup"
    /\ \E existing \in {get_article_by_url(store, reqs[c].url)} :
          reqs' = [reqs EXCEPT ![c] =
              IF has_quiz(existing)
              THEN respond_article([reqs[c] EXCEPT !.existing = existing], existing)
              ELSE IF ~validate_url(reqs[c].url)
              THEN respond([reqs[c] EXCEPT !.existing = existing], 400, InvalidUrlDetail, NoArticle)
              ELSE [reqs[c] EXCEPT !.existing = existing, !.pc = "scrape"]]
    /\ UNCHANGED <<op, inp, out, seed, rng, calls, store>>

\* lines 124-140, the fetch failing: get_all_content raises and the route
\* answers 500
ScrapeFails(c) ==
    /\ reqs[c].kind = "generate" /\ reqs[c].pc = "scrape"
    /\ reqs' = [reqs EXCEPT ![c] =
                   respond([reqs[c] EXCEPT !.scraped = TRUE], 500, FetchFailedDetail, NoArticle)]
    /\ UNCHANGED <<op, inp, out, seed, rng, calls, store>>

\* lines 124-140, the fetch succeeding: the page is scraped, and the quiz
\* (5 questions, the default) and the related topics are generated from it
Scrape(c) ==
    /\ reqs[c].kind = "generate" /\ reqs[c].pc = "scrape"
    /\ \E page \in {page_of(reqs[c].url)}, m \in 1..Len(RequestModels), t \in 1..Len(RequestTopicModels) :
          \E quiz \in generate_quiz(page.title, page.summary, page.sections,
                                    page.summary \o <<" ">>, 5, RequestModels[m]),
             topics \in {generate_related_topics(page.title, page.summary, page.sections,
                                                 RequestTopicModels[t])} :
              reqs' = [reqs EXCEPT ![c] =
                  IF quiz.error # "none" THEN respond([reqs[c] EXCEPT !.scraped = TRUE, !.generated = TRUE],
                                                     500, <<>>, NoArticle)
                  ELSE IF topics.error # "none"
                  THEN respond([reqs[c] EXCEPT !.scraped = TRUE, !.generated = TRUE],
                               500, <<>>, NoArticle)
                  ELSE [reqs[c] EXCEPT !.scraped = TRUE, !.generated = TRUE, !.pc = "write",
                                       !.quiz_questions = quiz.result,
                                       !.related_topics = topics.result]]
    /\ UNCHANGED <<op, inp, out, seed, rng, calls, store>>

\* lines 144-172: the record is updated (a record was found) or inserted, and
\* returned; IntegrityError is rolled back and answered 400
Write(c) ==
    /\ reqs[c].kind = "generate" /\ reqs[c].pc = "write"
    /\ reqs[c].existing.found \/ store.next_id <= MaxId
    /\ \E w \in {IF reqs[c].existing.found
                 THEN update_article(store, reqs[c].existing.id, reqs[c].url,
                                     reqs[c].quiz_questions, reqs[c].related_topics)
                 ELSE create_article(store, reqs[c].url,
                                     reqs[c].quiz_questions, reqs[c].related_topics)} :
          /\ store' = w.db
          /\ reqs' = [reqs EXCEPT ![c] =
                IF w.ok THEN respond_article(reqs[c], w.article)
                ELSE respond(reqs[c], 400, UrlExistsDetail, NoArticle)]
    /\ UNCHANGED <<op, inp, out, seed, rng, calls>>

\* DELETE /api/quiz/history/{article_id}, lines 197-206: the HTTPException
\* raised for an unknown id is caught by the route's own `except Exception`
\* and answered 500 with str(e) as detail
DeleteQuiz(c) ==
    /\ reqs[c].pc = "idle"
    /\ \E article_id \in 1..(MaxId + 1) :
          \E d \in {delete_article(store, article_id)}, e \in str_http_404(NotFoundDetail) :
              /\ store' = d.db
              /\ reqs' = [reqs EXCEPT ![c] =
                    IF d.success
                    THEN respond([NoRequest EXCEPT !.kind = "delete", !.article_id = article_id],
                                 200, DeletedMessage, NoArticle)
                    ELSE respond([NoRequest EXCEPT !.kind = "delete", !.article_id = article_id],
                                 500, e, NoArticle)]
    /\ UNCHANGED <<op, inp, out, seed, rng, calls>>

\* GET /api/quiz/history/{article_id}, lines 183-195
GetQuizDetails(c) ==
    /\ reqs[c].pc = "idle"
    /\ \E article_id \in 1..(MaxId + 1) :
          \E article \in {get_article_by_id(store, article_id)} :
              reqs' = [reqs EXCEPT ![c] =
                  IF ~article.found
                  THEN respond([NoRequest EXCEPT !.kind = "details", !.article_id = article_id],
                               404, NotFoundDetail, NoArticle)
                  ELSE respond_article([NoRequest EXCEPT !.kind = "details",
                                                         !.article_id = article_id], article)]
    /\ UNCHANGED <<op, inp, out, seed, rng, calls, store>>

\* the response is sent; the worker is free for the next request
Respond(c) ==
    /\ reqs[c].pc = "done"
    /\ reqs' = [reqs EXCEPT ![c] = NoRequest]
    /\ UNCHANGED <<op, inp, out, seed, rng, calls, store>>

NextStore ==
    \E c \in Reqs :
        \/ ReceiveGenerate(c)
        \/ Lookup(c)
        \/ ScrapeFails(c)
        \/ Scrape(c)
        \/ Write(c)
        \/ DeleteQuiz(c)
        \/ GetQuizDetails(c)
        \/ Respond(c)

SpecStore == InitStore /\ [][NextStore]_vars

\* ------------------------------------------------------------- properties

\* a call of generate_quiz, or of its lines 344-401 with a rendered prompt,
\* has returned or raised
QuizCallDone == op \in {"generate_quiz", "generate_quiz_body"}

\* no two of the options are equal
PairwiseDistinct(options) ==
    \A i, j \in 1..Len(options) : i # j => options[i] # options[j]

\* runs of whitespace inside a trimmed string collapsed to one space
RECURSIVE collapse_runs(_)
collapse_runs(s) ==
    IF Len(s) = 0 THEN <<>>
    ELSE IF IsSpace(Head(s))
    THEN <<" ">> \o collapse_runs(lstrip(s))
    ELSE <<Head(s)>> \o collapse_runs(Tail(s))

\* trimming plus collapsing internal whitespace
collapse_whitespace(s) == collapse_runs(strip(s))

\* the options that match at least one placeholder pattern
PlaceholderLooking(options) ==
    {i \in 1..Len(options) : \E p \in 1..NumPatterns : PatternMatches(p, options[i])}

\* C1: every call of generate_quiz with num_questions = N >= 0 returns a list
\* of exactly N questions, whatever the model does, and so does the fallback
\* generator on its own, an empty title and an empty summary included.
C1_ExactlyN ==
    /\ QuizCallDone => out.error = "none" /\ Len(out.result) = inp.num_questions
    /\ op = "generate_fallback_quiz" => Len(out) = inp.num_questions

\* a call with an empty title and an empty summary returned MaxN questions
C1_Witness ==
    /\ op = "generate_quiz"
    /\ inp.title = <<>> /\ inp.summary = <<>>
    /\ inp.num_questions = MaxN
    /\ Len(out.result) = MaxN

\* C2: generate_quiz never lets an exception through to its caller; a call
\* whose try block raised (the model call failed, the response was empty, the
\* JSON did not deserialize, an entry could not be normalized, or anything
\* else) went through Falling Back and returned a fallback quiz for the full
\* target count.
C2_ErrorsFallBack ==
    QuizCallDone =>
        /\ out.error = "none"
        /\ out.caught # "none" =>
              /\ Len(out.path) >= 2
              /\ out.path[Len(out.path) - 1] = "FallingBack"
              /\ out.path[Len(out.path)] = "Done"
              /\ out.result \in generate_fallback_quiz(inp.title, inp.summary, inp.num_questions)

\* a response that does not deserialize was caught and the call returned a
\* fallback quiz of MaxN questions
C2_Witness ==
    /\ op = "generate_quiz_body"
    /\ out.caught = "JSONDecodeError"
    /\ out.error = "none"
    /\ inp.num_questions = MaxN
    /\ Len(out.result) = MaxN

\* C3 as the specification states it: every call renders its prompt, invokes
\* the model exactly once, and enters Falling Back only after the invocation.
C3_InvokedOnce ==
    op = "generate_quiz" =>
        /\ out.invoked = 1
        /\ Len(out.path) >= 2
        /\ out.path[1] = "Rendering" /\ out.path[2] = "Invoking"

\* C4: whenever _repair_question returns, its output has exactly 4 options,
\* its answer is one of them, and its difficulty is easy, medium or hard; a
\* difficulty that is missing or is none of the three becomes easy.
C4_Structure ==
    (op = "repair_question" /\ out.ok) =>
        /\ Len(out.val.options) = 4
        /\ InList(out.val.answer, out.val.options)
        /\ out.val.difficulty \in {S_easy, S_medium, S_hard}
        /\ \/ /\ get(inp.q, <<"d","i","f","f","i","c","u","l","t","y">>).t = "str"
              /\ lower(get(inp.q, <<"d","i","f","f","i","c","u","l","t","y">>).v) \in {S_easy, S_medium, S_hard}
           \/ out.val.difficulty = S_easy

\* a question with fewer than 4 options, an answer no option contains and an
\* unknown difficulty was repaired
C4_Witness ==
    /\ op = "repair_question" /\ out.ok
    /\ get(inp.q, <<"d","i","f","f","i","c","u","l","t","y">>) = JStr(<<"e","x","t","r","e","m","e">>)
    /\ get(inp.q, <<"c","o","r","r","e","c","t">>) = JStr(<<"z","z","z">>)
    /\ get(inp.q, <<"o","p","t","i","o","n","s">>).t = "list" /\ Len(get(inp.q, <<"o","p","t","i","o","n","s">>).v) = 3
    /\ out.val.difficulty = S_easy
    /\ out.val.answer = out.val.options[1]

\* C5 as the specification states it: no two emitted options are equal once
\* trimmed and with their internal whitespace collapsed.
C5_DistinctCollapsed ==
    (op = "repair_question" /\ out.ok) =>
        PairwiseDistinct([i \in 1..Len(out.val.options) |->
                              collapse_whitespace(out.val.options[i])])

\* C5, amended: the emitted options are trimmed and pairwise distinct as
\* they stand; normalization is trimming alone, internal whitespace is kept.
C5_DistinctTrimmed ==
    (op = "repair_question" /\ out.ok) =>
        /\ PairwiseDistinct(out.val.options)
        /\ \A i \in 1..Len(out.val.options) : strip(out.val.options[i]) = out.val.options[i]

\* two emitted options differ only in their internal whitespace
C5_Witness ==
    /\ op = "repair_question" /\ out.ok
    /\ \E i, j \in 1..Len(out.val.options) :
          /\ i # j
          /\ out.val.options[i] # out.val.options[j]
          /\ collapse_whitespace(out.val.options[i]) = collapse_whitespace(out.val.options[j])

\* C6 as the specification states it: _repair_question returns a question
\* for every mapping and never raises.
C6_Total == op = "repair_question" => out.ok

\* C7 as the specification states it: every question _repair_question
\* returns has a non-empty question text, explanation and section.
C7_NonEmpty ==
    (op = "repair_question" /\ out.ok) =>
        /\ Len(out.val.question) > 0
        /\ Len(out.val.explanation) > 0
        /\ out.val.section.t = "str" /\ Len(strip(out.val.section.v)) > 0

\* C8 as the specification states it: every question generate_quiz returns
\* has four pairwise distinct options and an answer that is one of them.
C8_ReturnedQuestions ==
    op = "generate_quiz" =>
        \A k \in 1..Len(out.result) :
            /\ Len(out.result[k].options) = 4
            /\ PairwiseDistinct(out.result[k].options)
            /\ InList(out.result[k].answer, out.result[k].options)

\* C9 as the specification states it: the gate rejects a question exactly
\* when 3 or more of its options each match at least one placeholder pattern.
C9_ThreeOptions ==
    op = "is_placeholder" =>
        (out <=> Cardinality(PlaceholderLooking(inp.options)) >= PlaceholderThreshold)

\* C10 as the specification states it: a normalized question whose options
\* are A, B, C, D matches the placeholder signature.
C10_LettersRejected ==
    (op = "is_placeholder" /\ inp.options = letter_map) => out = TRUE

\* C10, amended: a bare single letter A-D matches none of the gate's
\* patterns, so a normalized question whose options are all bare letters
\* does not match the placeholder signature.
C10_LettersAccepted ==
    (op = "is_placeholder"
        /\ \A i \in 1..Len(inp.options) : Len(inp.options[i]) = 1 /\ InList(inp.options[i], letter_map))
    => out = FALSE

\* the gate was asked about the options A, B, C, D and did not reject
C10_Witness ==
    /\ op = "is_placeholder"
    /\ inp.options = letter_map
    /\ out = FALSE

\* C11 as the specification states it: two runs of _generate_fallback_quiz
\* with the same title, summary and target count return the same list, so
\* the list a run returned is the only list the call can return.
C11_Deterministic ==
    op = "generate_fallback_quiz" =>
        generate_fallback_quiz(inp.title, inp.summary, inp.num_questions) = {out}

\* C12 as the specification states it: with a target count of 1 or more the
\* first question of the fallback quiz is the main-topic question, its
\* answer is the title, and none of its three distractors equals the title.
C12_MainQuestion ==
    (op = "generate_fallback_quiz" /\ inp.num_questions >= 1) =>
        /\ out[1].question = main_q(inp.title, <<>>).question
        /\ out[1].answer = inp.title
        /\ Len(out[1].options) = 4
        /\ out[1].options[1] = inp.title
        /\ \A i \in 2..4 : out[1].options[i] # inp.title

\* the indices of s at which a year (18xx, 19xx, 20xx, a word of its own)
\* starts
YearStarts(s) == {i \in 1..Len(s) : YearMatch(s, i, << <<"1","8">>, <<"1","9">>, <<"2","0">> >>)}

\* the four digits of the first year of s
FirstYear(s) == SubSeq(s, MinOf(YearStarts(s)), MinOf(YearStarts(s)) + 3)

\* C13 as the specification states it: when the summary holds a year and the
\* target count is 2 or more, the fallback quiz has the year question and
\* its answer is the first year of the summary, all four digits of it.
C13_FullYear ==
    (op = "generate_fallback_quiz" /\ inp.num_questions >= 2
        /\ YearStarts(strip(inp.summary)) # {}) =>
        \E k \in 1..Len(out) :
            /\ out[k].question = <<"2","."," ","W","h","i","c","h"," ","y","e","a","r"," ","i","s"," ","m","e","n","t","i","o","n","e","d"," ","i","n"," ","t","h","e"," ","a","r","t","i","c","l","e"," ","s","u","m","m","a","r","y","?">>
            /\ out[k].answer = FirstYear(strip(inp.summary))

\* the list the model supplied, read from the outcome of json.loads: the
\* top-level list, or the list under related_topics of a top-level mapping;
\* <<>> with supplied FALSE when there is none
SuppliedList(parsed) ==
    IF parsed.ok /\ parsed.val.t = "list"
    THEN [supplied |-> TRUE, items |-> parsed.val.v]
    ELSE IF parsed.ok /\ parsed.val.t = "dict"
            /\ get(parsed.val, <<"r","e","l","a","t","e","d","_","t","o","p","i","c","s">>).t = "list"
    THEN [supplied |-> TRUE, items |-> get(parsed.val, <<"r","e","l","a","t","e","d","_","t","o","p","i","c","s">>).v]
    ELSE [supplied |-> FALSE, items |-> <<>>]

SuppliedByText(cleaned) ==
    IF cleaned.ok THEN SuppliedList(json_loads(cleaned.val)) ELSE SuppliedList(cleaned)

\* the JSON location or the deserialization fails
ParseFails(cleaned) == ~cleaned.ok \/ ~json_loads(cleaned.val).ok

\* the list supplied by the model in the call that has returned
ModelsList ==
    IF inp.model.raises THEN SuppliedList(Raise("TransportError"))
    ELSE SuppliedByText(clean_json_response(inp.model.text))

\* the indices of items that hold a string whose trimmed form is s
Occurrences(items, s) ==
    {k \in 1..Len(items) : items[k].t = "str" /\ strip(items[k].v) = s}

\* the distinct non-empty trimmed strings of items
TrimmedStrings(items) ==
    {strip(items[k].v) : k \in {j \in 1..Len(items) : items[j].t = "str"}} \ {<<>>}

\* result lists strings of items in the order of their first occurrence,
\* leaving out none that comes before one it lists
InFirstOccurrenceOrder(result, items) ==
    /\ \A i \in 1..Len(result) : Occurrences(items, result[i]) # {}
    /\ \A i, j \in 1..Len(result) :
          i < j => MinOf(Occurrences(items, result[i])) < MinOf(Occurrences(items, result[j]))
    /\ \A s \in TrimmedStrings(items) :
          InList(s, result)
          \/ (Len(result) = MaxTopics
              /\ MinOf(Occurrences(items, s)) > MinOf(Occurrences(items, result[MaxTopics])))

BackslashRun(s, i) == i - 1 - MaxOf({k \in 1..(i - 1) : s[k] # "\\"})

\* index i of s is inside a string literal: an odd number of unescaped
\* quotes stands before it
InsideString(s, i) ==
    Cardinality({k \in 1..(i - 1) : s[k] = "\"" /\ BackslashRun(s, k) % 2 = 0}) % 2 = 1

\* x is a JSON array or object (so its brackets balance) and none of its
\* string literals holds a bracket character
CleanJson(x) ==
    /\ Len(x) > 0
    /\ x[1] \in {"[", "{"}
    /\ json_loads(x).ok
    /\ \A i \in 1..Len(x) : x[i] \in {"[", "]", "{", "}"} => ~InsideString(x, i)

\* x holds no ampersand, which is where a character reference starts, and no
\* three backticks in a row
NoReferenceNoFence(x) ==
    /\ ~InList("&", x)
    /\ ~\E i \in 1..(Len(x) - 2) : x[i] = Backtick /\ x[i + 1] = Backtick /\ x[i + 2] = Backtick

RECURSIVE build_alone(_, _, _, _, _)
build_alone(sds, k, questions, num_questions, r) ==
    IF k > Len(sds) \/ Len(questions) >= num_questions THEN questions
    ELSE build_alone(sds, k + 1,
                     Append(questions,
                            seed_question(k + 1, sds[k],
                                          shuffle_with(other_choices(fromkeys(sds[k].pool)), r))),
                     num_questions, advance(r))

\* what the call returns when it is the only call of the process
ResultAlone(call) ==
    truncate(call.head
                 \o truncate(clone_concept_questions(
                                 build_alone(call.seeds, 1, <<call.questions[1]>>, call.count, seed),
                                 call.title, call.count),
                             call.count),
             call.num_questions)

\* C16 as the specification states it: the core reads and writes no
\* process-wide state, so each of the calls of generate_quiz that run at the
\* same time returns what it returns when it runs alone in the process.
C16_Independent ==
    \A c \in DOMAIN calls :
        (calls[c].pc = "returned" /\ calls[c].count > 0) => calls[c].result = ResultAlone(calls[c])

\* the first questions of result are the accepted questions, all of them or
\* the first num_questions, and what follows is a fallback quiz for the
\* number that was missing
AcceptedThenPadded(result, accepted, title, summary, num_questions) ==
    /\ Len(result) >= Len(truncate(accepted, num_questions))
    /\ SubSeq(result, 1, Len(truncate(accepted, num_questions))) = truncate(accepted, num_questions)
    /\ Len(accepted) < num_questions =>
          SubSeq(result, Len(accepted) + 1, Len(result))
              \in generate_fallback_quiz(title, summary, num_questions - Len(accepted))

\* what the gate decided on the model's response, t, shows in the result: a
\* rejected set gives the fallback quiz for the full count, an accepted set
\* comes first and unchanged
GateDecides(t, result, title, summary, num_questions) ==
    /\ t.kind = "rejected" => result \in generate_fallback_quiz(title, summary, num_questions)
    /\ t.kind = "accepted" => AcceptedThenPadded(result, t.questions, title, summary, num_questions)

RawAnswer == strip(PyStr(Or(get(inp.q, <<"a","n","s","w","e","r">>), Or(get(inp.q, <<"c","o","r","r","e","c","t">>), JStr(<<>>)))))

\* the raw answer is no single letter A-D, in either case
NotALetter(ans_str) == ~InList(upper(ans_str), letter_map)

\* the first of the options in Hits, or option 0 when Hits is empty
FirstOf(options, Hits) == IF Hits = {} THEN options[1] ELSE options[MinOf(Hits)]

\* C18 as the specification states it: an answer that is no letter A-D
\* resolves to the first option that contains it or that it contains,
\* ignoring case, and to option 0 only when there is no such option.
C18_EitherDirection ==
    (op = "repair_question" /\ out.ok /\ NotALetter(RawAnswer)) =>
        out.val.answer =
            FirstOf(out.val.options,
                    {i \in 1..Len(out.val.options) :
                        \/ Contains(lower(out.val.options[i]), lower(RawAnswer))
                        \/ Contains(lower(RawAnswer), lower(out.val.options[i]))})

\* C18, amended: an answer that is no letter A-D resolves to the first
\* option that contains it, ignoring case, and to option 0 when no option
\* contains it, also when the answer contains one of the options.
C18_OptionContainsAnswer ==
    (op = "repair_question" /\ out.ok /\ NotALetter(RawAnswer)) =>
        out.val.answer =
            FirstOf(out.val.options,
                    {i \in 1..Len(out.val.options) :
                        Contains(lower(out.val.options[i]), lower(RawAnswer))})

\* the answer "The city of Paris" was resolved to option 0 although a later
\* option is "Paris"
C18_Witness ==
    /\ op = "repair_question" /\ out.ok
    /\ RawAnswer = <<"T","h","e"," ","c","i","t","y"," ","o","f"," ","P","a","r","i","s">>
    /\ \E i \in 2..Len(out.val.options) : out.val.options[i] = <<"P","a","r","i","s">>
    /\ out.val.options[1] # <<"P","a","r","i","s">>
    /\ out.val.answer = out.val.options[1]

\* C19 as the specification states it: a raw answer that is, once trimmed,
\* literally one of the 4 final options resolves to that option, whether or
\* not it is also a letter A-D and whether or not an earlier option contains
\* it.
C19_LiteralFirst ==
    (op = "repair_question" /\ out.ok /\ InList(RawAnswer, out.val.options)) =>
        out.val.answer = RawAnswer

\* C20 as the specification states it: every string generate_related_topics
\* returns is the trimmed form of a string of the list the model supplied
\* (the top-level list, or the list under related_topics of a top-level
\* mapping), and when the model supplied no list, the value under
\* related_topics being a string or a mapping, the result is empty.
C20_FromModelList ==
    op = "generate_related_topics" =>
        /\ \A i \in 1..Len(out.result) : Occurrences(ModelsList.items, out.result[i]) # {}
        /\ ~ModelsList.supplied => out.result = <<>>

\* ------------------------------------------------ properties of the API layer

\* request c makes its lookup in this step
LooksUp(c) == reqs[c].kind = "generate" /\ reqs[c].pc = "lookup" /\ reqs'[c].pc # "lookup"

\* a DELETE request is served in this step
DeleteServed == \E c \in Reqs : reqs[c].pc = "idle" /\ reqs'[c].kind = "delete"

\* request c has been answered 200 with the quiz and the related topics of r
AnsweredWith(c, r) ==
    /\ reqs'[c].pc = "done" /\ reqs'[c].status = 200
    /\ reqs'[c].body.id = r.id /\ reqs'[c].body.url = r.url
    /\ reqs'[c].body.quiz_questions = r.quiz_questions
    /\ reqs'[c].body.related_topics = r.related_topics

\* C21: once a record with a non-empty quiz is stored for a URL, a generate
\* request that looks the URL up is answered with the stored quiz and related
\* topics, without scraping, without calling the generator and without
\* changing the table; and no step other than a DELETE changes or removes
\* such a record
C21_StoredQuizReused ==
    [][/\ \A c \in Reqs : \A r \in store.rows :
              (LooksUp(c) /\ r.url = reqs[c].url /\ Len(r.quiz_questions) > 0)
              => (AnsweredWith(c, r) /\ ~reqs'[c].scraped /\ ~reqs'[c].generated
                  /\ store' = store)
        /\ \A kept \in store.rows :
              (Len(kept.quiz_questions) > 0 /\ ~DeleteServed) => kept \in store'.rows]_vars

\* a generate request has been answered from the stored record, without
\* scraping, while the record is still in the table
C21_Witness ==
    \E c \in Reqs : \E r \in store.rows :
        /\ reqs[c].kind = "generate" /\ reqs[c].pc = "done" /\ reqs[c].status = 200
        /\ ~reqs[c].scraped /\ ~reqs[c].generated
        /\ r.url = reqs[c].url /\ Len(r.quiz_questions) = 5
        /\ reqs[c].body.quiz_questions = r.quiz_questions
        /\ reqs[c].body.related_topics = r.related_topics

\* the table holds at most one record for each URL
OneRecordPerUrl == \A r1 \in store.rows : \A r2 \in store.rows : r1.url = r2.url => r1 = r2

\* request c, which found no record at its lookup, makes its insert in this
\* step while the table holds a record for its URL
InsertCollides(c) ==
    /\ reqs[c].kind = "generate" /\ reqs[c].pc = "write" /\ reqs'[c].pc = "done"
    /\ ~reqs[c].existing.found
    /\ \E r \in store.rows : r.url = reqs[c].url

\* C22: however the generate requests for a URL interleave, the table never
\* holds two records for the URL; a request whose insert meets the record
\* another request stored is answered 400 "Article URL already exists" and
\* leaves the table, and so the other request's record, as it is
C22_OneRecordPerUrl ==
    /\ []OneRecordPerUrl
    /\ [][\A c \in Reqs :
              InsertCollides(c)
              => (reqs'[c].status = 400 /\ reqs'[c].detail = UrlExistsDetail
                  /\ store' = store)]_vars

\* two requests for one URL both found no record; one stored its record and
\* is answered 200, the other is answered 400 and the record is the first's
C22_Witness ==
    \E c \in Reqs : \E d \in Reqs : \E r \in store.rows :
        /\ c # d
        /\ reqs[c].kind = "generate" /\ reqs[c].pc = "done" /\ reqs[c].status = 400
        /\ reqs[c].detail = UrlExistsDetail /\ reqs[c].generated
        /\ reqs[d].kind = "generate" /\ reqs[d].pc = "done" /\ reqs[d].status = 200
        /\ reqs[d].generated /\ reqs[d].url = reqs[c].url
        /\ r.url = reqs[c].url /\ r.id = reqs[d].body.id
        /\ r.quiz_questions = reqs[d].body.quiz_questions
        /\ Cardinality({x \in store.rows : x.url = reqs[c].url}) = 1

\* a DELETE request for article_id is served by c in this step
Deletes(c, article_id) ==
    reqs[c].pc = "idle" /\ reqs'[c].kind = "delete" /\ reqs'[c].article_id = article_id

\* a GET request for the details of article_id is served by c in this step
GetsDetails(c, article_id) ==
    reqs[c].pc = "idle" /\ reqs'[c].kind = "details" /\ reqs'[c].article_id = article_id

\* the ids of the records in the table
StoredIds(db) == {r.id : r \in db.rows}

\* C23: a DELETE for an id with no record is answered 404 "Quiz not found"
\* and leaves the table unchanged; a DELETE for an id with a record removes
\* exactly that record and is answered with success; a GET for an id with no
\* record (as after its DELETE) is answered 404 "Quiz not found"
C23_DeleteAnswers ==
    [][\A c \in Reqs : \A article_id \in 1..(MaxId + 1) :
          /\ (Deletes(c, article_id) /\ article_id \notin StoredIds(store))
             => (reqs'[c].status = 404 /\ reqs'[c].detail = NotFoundDetail /\ store' = store)
          /\ (Deletes(c, article_id) /\ article_id \in StoredIds(store))
             => (/\ reqs'[c].status = 200 /\ reqs'[c].detail = DeletedMessage
                 /\ store'.rows = {r \in store.rows : r.id # article_id})
          /\ (GetsDetails(c, article_id) /\ article_id \notin StoredIds(store))
             => (reqs'[c].status = 404 /\ reqs'[c].detail = NotFoundDetail)]_vars

\* the parts of C23 that the routes keep: the DELETE of a stored record and
\* the GET of an id with no record
C23_DeleteStored ==
    [][\A c \in Reqs : \A article_id \in 1..(MaxId + 1) :
          /\ (Deletes(c, article_id) /\ article_id \in StoredIds(store))
             => (/\ reqs'[c].status = 200 /\ reqs'[c].detail = DeletedMessage
                 /\ store'.rows = {r \in store.rows : r.id # article_id})
          /\ (Deletes(c, article_id) /\ article_id \notin StoredIds(store))
             => store' = store
          /\ (GetsDetails(c, article_id) /\ article_id \notin StoredIds(store))
             => (reqs'[c].status = 404 /\ reqs'[c].detail = NotFoundDetail)]_vars

\* a DELETE for an id with no record has been answered 500
C23_AnsweredServerError ==
    \E c \in Reqs :
        /\ reqs[c].kind = "delete" /\ reqs[c].pc = "done"
        /\ reqs[c].status = 500 /\ reqs[c].detail \in str_http_404(NotFoundDetail)
        /\ reqs[c].article_id \notin StoredIds(store)
====
